---- MODULE Spec2Model ----
(***************************************************************************)
(* Model of the templated RPC marshalling layer of xhal                    *)
(* (xhal/common/rpc/common.h): MessageBase, MessageSerializer,             *)
(* MessageDeserializer and the free (de)serialization functions.           *)
(*                                                                         *)
(* One behaviour is one remote call's argument marshalling: a fresh        *)
(* MessageSerializer saves `value` (of static type saveShape) into the     *)
(* empty message `req`, then a fresh MessageDeserializer loads a holder of *)
(* static type loadShape from the same message.  The recursive template    *)
(* code is run by an explicit stack of frames, one frame per pending call. *)
(* Before that, the call is compiled: overload resolution of saveImpl and  *)
(* loadImpl for the types involved accepts or rejects it.                  *)
(*                                                                         *)
(* Specifications                                                          *)
(*   Spec       one call, holder of the same or of another type            *)
(*   SpecTwice  the value serialized twice, by two serializers             *)
(*   SpecCalls  the call interleaved with a second call                    *)
(*   SpecInto   one call whose holder already has content                  *)
(*                                                                         *)
(* Representation                                                          *)
(*   text             sequence of character codes ("oh0" = <<111,104,48>>) *)
(*   message key      text, the decimal form of the key index              *)
(*   slot             [kind, val]                                          *)
(*   float            [s, e, m]: sign, biased exponent, mantissa           *)
(*   std::vector,     sequence (index I of the code is position I+1)       *)
(*   std::array,                                                           *)
(*   std::tuple                                                            *)
(*   std::map         function from keys to values, iterated in key order  *)
(*   aggregate        record of members                                    *)
(***************************************************************************)
EXTENDS Integers, Sequences, FiniteSets

(***************************************************************************)
(* Bounds of the model                                                     *)
(***************************************************************************)
\* longest std::vector drawn as an input
MaxLen == 2

(***************************************************************************)
(* Integer widths                                                          *)
(***************************************************************************)
TwoTo7  == 2^7
TwoTo8  == 2^8
TwoTo15 == 2^15
TwoTo16 == 2^16
TwoTo23 == 2^23

\* A std::uint32_t datum is kept as its two 16-bit halves, [hi, lo].
Word(hi, lo) == [hi |-> hi, lo |-> lo]
ZeroWord == Word(0, 0)
MaxWord  == Word(TwoTo16 - 1, TwoTo16 - 1)

\* std::uint32_t x = n, for a size n
ToWord(n) == Word((n \div TwoTo16) % TwoTo16, n % TwoTo16)

\* the number a word stands for (the words used as sizes are below 2^31)
WordNat(w) == w.hi * TwoTo16 + w.lo

\* operator< of std::uint32_t
WordLess(a, b) == a.hi < b.hi \/ (a.hi = b.hi /\ a.lo < b.lo)

(***************************************************************************)
(* Text and std::to_string                                                 *)
(***************************************************************************)
\* code of the character '0'
CharZero == 48

\* key strings counted from one
to_stringFromOne(n) == <<CharZero + n + 1>>

\* std::to_string(std::uint32_t): decimal digits, most significant first
RECURSIVE to_string(_)
to_string(n) ==
    IF n < 10 THEN <<CharZero + n>>
    ELSE to_string(n \div 10) \o <<CharZero + (n % 10)>>

\* std::string::operator< : lexicographic on the character codes
RECURSIVE TextLess(_, _)
TextLess(a, b) ==
    IF Len(b) = 0 THEN FALSE
    ELSE IF Len(a) = 0 THEN TRUE
    ELSE IF Head(a) # Head(b) THEN Head(a) < Head(b)
    ELSE TextLess(Tail(a), Tail(b))

\* iteration order of std::map<std::uint32_t, T>
RECURSIVE SortedWords(_)
SortedWords(S) ==
    IF S = {} THEN <<>>
    ELSE LET m == CHOOSE x \in S : \A y \in S : y = x \/ WordLess(x, y)
         IN  <<m>> \o SortedWords(S \ {m})

\* iteration order of std::map<std::string, T>
RECURSIVE SortedTexts(_)
SortedTexts(S) ==
    IF S = {} THEN <<>>
    ELSE LET m == CHOOSE x \in S : \A y \in S : y = x \/ TextLess(x, y)
         IN  <<m>> \o SortedTexts(S \ {m})

(***************************************************************************)
(* Scalar conversions                                                      *)
(***************************************************************************)
\* static_cast<std::uint32_t>(bool)
BoolToWord(b) == IF b THEN Word(0, 1) ELSE Word(0, 0)

\* a load of bool that keeps the lowest bit of the word
WordToBoolLowBit(w) == w.lo % 2 = 1

\* bool value = tmp
WordToBool(w) == w.hi # 0 \/ w.lo # 0

\* static_cast<std::uint32_t>(std::uint8_t / std::uint16_t): zero extension
NarrowToWord(x) == Word(0, x)

\* a load of std::uint8_t that clamps the word to the largest std::uint8_t
WordToU8Saturated(w) ==
    IF w.hi # 0 \/ w.lo >= TwoTo8 THEN TwoTo8 - 1 ELSE w.lo

\* std::uint8_t value = tmp
WordToU8(w) == w.lo % TwoTo8

\* a load of std::uint16_t that keeps the low byte only
WordToU16LowByte(w) == w.lo % TwoTo8

\* std::uint16_t value = tmp
WordToU16(w) == w.lo % TwoTo16

\* std::memcpy(&tmp, &value, 4): the IEEE-754 single precision pattern
FloatToWord(f) ==
    Word(f.s * TwoTo15 + f.e * TwoTo7 + (f.m \div TwoTo16), f.m % TwoTo16)

\* a load of float that goes through an arithmetic conversion, which turns
\* a signalling NaN into the quiet NaN of the same payload
WordToFloatQuiet(w) ==
    LET e == (w.hi \div TwoTo7) % TwoTo8
        m == (w.hi % TwoTo7) * TwoTo16 + w.lo
    IN  [s |-> w.hi \div TwoTo15, e |-> e,
         m |-> IF e = TwoTo8 - 1 /\ m # 0 /\ m < TwoTo23 \div 2
               THEN m + TwoTo23 \div 2 ELSE m]

\* std::memcpy(&value, &tmp, 4)
WordToFloat(w) ==
    [s |-> w.hi \div TwoTo15, e |-> (w.hi \div TwoTo7) % TwoTo8,
     m |-> (w.hi % TwoTo7) * TwoTo16 + w.lo]

\* object representation of one integral element of sz bytes (little endian)
RECURSIVE ElemBytes(_, _)
ElemBytes(x, sz) ==
    IF sz = 0 THEN <<>>
    ELSE <<x % TwoTo8>> \o ElemBytes(x \div TwoTo8, sz - 1)

\* value.data() read as N*sizeof(T) bytes
RECURSIVE ToBytes(_, _)
ToBytes(arr, sz) ==
    IF Len(arr) = 0 THEN <<>>
    ELSE ElemBytes(Head(arr), sz) \o ToBytes(Tail(arr), sz)

\* the integral element stored in sz bytes
RECURSIVE BytesElem(_, _)
BytesElem(bytes, sz) ==
    IF sz = 0 THEN 0
    ELSE Head(bytes) + TwoTo8 * BytesElem(Tail(bytes), sz - 1)

\* value.data() after N*sizeof(T) bytes were copied into it
RECURSIVE FromBytes(_, _)
FromBytes(bytes, sz) ==
    IF Len(bytes) < sz \/ sz = 0 THEN <<>>
    ELSE <<BytesElem(SubSeq(bytes, 1, sz), sz)>>
         \o FromBytes(SubSeq(bytes, sz + 1, Len(bytes)), sz)

(***************************************************************************)
(* Static types (shapes)                                                   *)
(***************************************************************************)
U32        == [k |-> "u32"]
Bool       == [k |-> "bool"]
U8         == [k |-> "u8"]
U16        == [k |-> "u16"]
Float      == [k |-> "float"]
Str        == [k |-> "str"]
VecU32     == [k |-> "vecu32"]
VecStr     == [k |-> "vecstr"]
VoidHolder == [k |-> "void"]
\* a type with no saveImpl/loadImpl overload of its own and no routine
Double     == [k |-> "double"]
\* std::array<T, n> with T integral (not bool) of sz bytes
IArr(n, sz) == [k |-> "iarr", n |-> n, sz |-> sz]
\* std::vector<T>, T neither std::uint32_t nor std::string
Vec(t)     == [k |-> "vec", elem |-> t]
\* std::array<T, n>, T not integral
Arr(t, n)  == [k |-> "arr", elem |-> t, n |-> n]
MapU(t)    == [k |-> "mapu", elem |-> t]
MapS(t)    == [k |-> "maps", elem |-> t]
Tuple(ts)  == [k |-> "tuple", elems |-> ts]
Holder(t)  == [k |-> "holder", elem |-> t]
\* user aggregate: members `names` of type t; mech is the hook it provides,
\* "serialize" (one routine, order sorder), "split" (save in order sorder,
\* load in order lorder) or "both" (all three routines)
Agg(mech, names, t, sorder, lorder) ==
    [k |-> "agg", mech |-> mech, names |-> names, elem |-> t,
     sorder |-> sorder, lorder |-> lorder]

\* the documented example: struct Point { std::uint32_t x, y; } with
\* serialize(msg) { msg & x & y; }
Point == Agg("serialize", {"x", "y"}, U32, <<"x", "y">>, <<"x", "y">>)
\* aggregate with save(msg) { msg << a << b << c; } and the matching load
Abc == Agg("split", {"a", "b", "c"}, U32, <<"a", "b", "c">>, <<"a", "b", "c">>)
\* the same aggregate with load(msg) { msg >> b >> a >> c; }
AbcSwapped ==
    Agg("split", {"a", "b", "c"}, U32, <<"a", "b", "c">>, <<"b", "a", "c">>)

\* struct Point as the documentation writes it, with serialize(msg),
\* save(msg) and load(msg) in one struct
PointBoth == Agg("both", {"x", "y"}, U32, <<"x", "y">>, <<"x", "y">>)

\* (uint32, sequence<uint32>, text)
ExampleShape == Tuple(<<U32, VecU32, Str>>)

Shapes ==
    << U32, Bool, U8, U16, Float, Str, VecU32, VecStr,
       IArr(2, 1), IArr(1, 2), Vec(U16), Arr(Bool, 2),
       MapU(U32), MapS(Bool), Tuple(<<>>), ExampleShape,
       Tuple(<<U32, U32>>), Tuple(<<U32>>), Holder(U32), VoidHolder,
       Abc, AbcSwapped, Point, Vec(MapU(IArr(1, 2))), MapU(Vec(U8)),
       Double, Tuple(<<U32, Double>>), Vec(Double), PointBoth,
       Tuple(<<Vec(U16), U32>>), Holder(Vec(U16)) >>

\* integral arrays of three and of four bytes.  They are marshalled with
\* holders of their own type only: what get_binarydata does with a buffer of
\* another size than the blob is the affair of wisc::RPCMsg.
BlobShapes == << IArr(3, 1), IArr(2, 2) >>

\* std::array of floats (of size 0 and 2), of texts and of aggregates, each
\* loaded with its own shape
ArrayShapes == << Arr(Float, 0), Arr(Float, 2), Arr(Str, 2), Arr(Point, 1) >>

\* std::array<bool, 11>, whose encoding needs keys of two digits
LongArray == Arr(Bool, 11)

\* the save and load hooks of an aggregate touch the members in one order
RECURSIVE HooksAgree(_)
HooksAgree(sh) ==
    CASE sh.k = "agg" -> sh.sorder = sh.lorder /\ HooksAgree(sh.elem)
      [] sh.k \in {"vec", "arr", "mapu", "maps", "holder"} -> HooksAgree(sh.elem)
      [] sh.k = "tuple" -> \A i \in 1..Len(sh.elems) : HooksAgree(sh.elems[i])
      [] OTHER -> TRUE

(***************************************************************************)
(* Input values                                                            *)
(***************************************************************************)
Text_oh0 == <<111, 104, 48>>
Text_a   == <<97>>

VecWordVals == {Word(0, 1), MaxWord}
TextVals    == {<<>>, Text_oh0}
MapWordKeys == {Word(0, 7), Word(1, 0)}
MapTextKeys == {Text_a, Text_oh0}
\* 0.0, -0.0, the smallest and the largest normal magnitude, a signalling
\* NaN with payload 1, a negative quiet NaN with payload 5
FloatVals ==
    { [s |-> 0, e |-> 0, m |-> 0], [s |-> 1, e |-> 0, m |-> 0],
      [s |-> 0, e |-> 1, m |-> 0], [s |-> 0, e |-> 254, m |-> TwoTo23 - 1],
      [s |-> 0, e |-> 255, m |-> 1], [s |-> 1, e |-> 255, m |-> TwoTo23 \div 2 + 5] }

\* words with bits above the 8th and above the 16th, and the patterns
\* 0x00000000, 0x80000000 (-0.0), 0x00800000 and 0x7F7FFFFF (smallest and
\* largest normal), 0x7F800001, 0x7FC00001 and 0xFFFFFFFF (NaNs)
PatternWords ==
    { ZeroWord, Word(0, TwoTo8 - 1), Word(0, TwoTo8), Word(0, TwoTo16 - 1),
      Word(1, 0), Word(4660, 43981), Word(TwoTo15, 0), Word(TwoTo7, 0),
      Word(TwoTo15 - TwoTo7 - 1, TwoTo16 - 1), Word(TwoTo15 - TwoTo7, 1),
      Word(TwoTo15 - TwoTo7 \div 2, 1), MaxWord }

\* Inputs come in two sizes.  With small = TRUE every scalar is encoded as
\* a word of at most 2 (so that a holder of another type that takes the word
\* for a vector length stays small), vectors have at most one element and
\* maps at most one entry.
LenBound(small) == IF small THEN 1 ELSE MaxLen
WordKeys(small) == IF small THEN {Word(0, 7)} ELSE MapWordKeys
TextKeys(small) == IF small THEN {Text_a} ELSE MapTextKeys

ScalarVals(k, small) ==
    CASE k = "u32"   -> IF small THEN {ZeroWord, Word(0, 2)}
                        ELSE {ZeroWord, Word(0, 42), MaxWord}
      [] k = "bool"  -> BOOLEAN
      [] k = "u8"    -> IF small THEN {0, 1} ELSE {0, 1, TwoTo8 - 1}
      [] k = "u16"   -> IF small THEN {0, 2} ELSE {0, TwoTo8, TwoTo16 - 1}
      [] k = "float" -> IF small THEN {[s |-> 0, e |-> 0, m |-> 0], [s |-> 0, e |-> 0, m |-> 1]}
                        ELSE FloatVals

RECURSIVE SeqsUpTo(_, _)
SeqsUpTo(S, n) ==
    IF n = 0 THEN {<<>>}
    ELSE LET shorter == SeqsUpTo(S, n - 1)
         IN  shorter \cup {Append(s, x) : s \in {t \in shorter : Len(t) = n - 1}, x \in S}

RECURSIVE Values(_, _)
RECURSIVE TupleValues(_, _)
TupleValues(shs, small) ==
    IF Len(shs) = 0 THEN {<<>>}
    ELSE {<<h>> \o t : h \in Values(Head(shs), small), t \in TupleValues(Tail(shs), small)}

Values(sh, small) ==
    CASE sh.k \in {"u32", "bool", "u8", "u16", "float"} -> ScalarVals(sh.k, small)
      [] sh.k = "str"    -> TextVals
      [] sh.k = "vecu32" -> SeqsUpTo(VecWordVals, LenBound(small))
      [] sh.k = "vecstr" -> SeqsUpTo(TextVals, LenBound(small))
      [] sh.k = "iarr"   -> [1..sh.n -> {1, 2^(8 * sh.sz) - 2}]
      [] sh.k = "vec"    -> SeqsUpTo(Values(sh.elem, small), LenBound(small))
      [] sh.k = "arr"    -> [1..sh.n -> Values(sh.elem, small)]
      [] sh.k = "mapu"   -> UNION {[S -> Values(sh.elem, small)] : S \in SUBSET WordKeys(small)}
      [] sh.k = "maps"   -> UNION {[S -> Values(sh.elem, small)] : S \in SUBSET TextKeys(small)}
      [] sh.k = "tuple"  -> TupleValues(sh.elems, small)
      [] sh.k = "holder" -> {<<v>> : v \in Values(sh.elem, small)}
      [] sh.k = "void"   -> {<<>>}
      [] sh.k = "agg"    -> [sh.names -> Values(sh.elem, small)]
      [] sh.k = "double" -> {0}

\* the argument tuple (42, [1,2,3], "oh0")
ExampleArgs == <<Word(0, 42), <<Word(0, 1), Word(0, 2), Word(0, 3)>>, Text_oh0>>

Inputs(sh) ==
    IF sh = ExampleShape THEN Values(sh, FALSE) \cup {ExampleArgs}
    ELSE IF sh = LongArray THEN {[i \in 1..sh.n |-> i % 2 = 1], [i \in 1..sh.n |-> i % 3 = 1]}
    ELSE Values(sh, FALSE)

\* a value-initialised object of static type sh
RECURSIVE Default(_)
Default(sh) ==
    CASE sh.k = "u32"    -> ZeroWord
      [] sh.k \in {"u8", "u16", "double"} -> 0
      [] sh.k = "bool"   -> FALSE
      [] sh.k = "float"  -> [s |-> 0, e |-> 0, m |-> 0]
      [] sh.k \in {"str", "vecu32", "vecstr", "vec", "mapu", "maps", "void"} -> <<>>
      [] sh.k = "iarr"   -> [i \in 1..sh.n |-> 0]
      [] sh.k = "arr"    -> [i \in 1..sh.n |-> Default(sh.elem)]
      [] sh.k = "tuple"  -> [i \in 1..Len(sh.elems) |-> Default(sh.elems[i])]
      [] sh.k = "holder" -> <<Default(sh.elem)>>
      [] sh.k = "agg"    -> [n \in sh.names |-> Default(sh.elem)]

(***************************************************************************)
(* Access to a sub-object by its path.  A path is a sequence of selectors: *)
(* [idx |-> i] (position i of a vector, array or tuple), [wkey |-> k] and  *)
(* [tkey |-> t] (the entry of a map), [mem |-> "a"] (a member).            *)
(***************************************************************************)
Idx(i)   == [idx |-> i]
WKey(k)  == [wkey |-> k]
TKey(t)  == [tkey |-> t]
Mem(n)   == [mem |-> n]

SelKey(s) ==
    CASE "idx"  \in DOMAIN s -> s.idx
      [] "wkey" \in DOMAIN s -> s.wkey
      [] "tkey" \in DOMAIN s -> s.tkey
      [] "mem"  \in DOMAIN s -> s.mem

RECURSIVE GetAt(_, _)
GetAt(v, p) == IF Len(p) = 0 THEN v ELSE GetAt(v[SelKey(Head(p))], Tail(p))

RECURSIVE SetAt(_, _, _)
SetAt(v, p, x) ==
    IF Len(p) = 0 THEN x
    ELSE [v EXCEPT ![SelKey(Head(p))] = SetAt(v[SelKey(Head(p))], Tail(p), x)]

\* static type of the sub-object at path p of an object of type sh
RECURSIVE ShapeAt(_, _)
ShapeAt(sh, p) ==
    IF Len(p) = 0 THEN sh
    ELSE IF sh.k = "tuple" THEN ShapeAt(sh.elems[Head(p).idx], Tail(p))
    ELSE ShapeAt(sh.elem, Tail(p))

\* p is a prefix of q
IsPrefix(p, q) == Len(p) <= Len(q) /\ SubSeq(q, 1, Len(p)) = p

(***************************************************************************)
(* wisc::RPCMsg: a store of typed slots under string keys                  *)
(***************************************************************************)
EmptyMsg == [x \in {} |-> 0]

SetSlot(m, key, kind, val) ==
    [x \in DOMAIN m \cup {key} |->
        IF x = key THEN [kind |-> kind, val |-> val] ELSE m[x]]

set_word(m, key, v)         == SetSlot(m, key, "word", v)
set_word_array(m, key, v)   == SetSlot(m, key, "word_array", v)
set_string(m, key, v)       == SetSlot(m, key, "string", v)
set_string_array(m, key, v) == SetSlot(m, key, "string_array", v)
set_binarydata(m, key, v)   == SetSlot(m, key, "binarydata", v)

\* outcome of get_<kind>(key): the exception it throws, or "none"
GetError(m, key, kind) ==
    IF key \notin DOMAIN m THEN "BadKey"
    ELSE IF m[key].kind # kind THEN "Type"
    ELSE "none"

\* value returned by a get_<kind>(key) that does not throw
GetValue(m, key) == m[key].val

\* a get that takes the slot out of the message
AfterGetConsumed(m, key) == [x \in DOMAIN m \ {key} |-> m[x]]

\* the message after a get: the getters are const members
AfterGet(m, key) == m

(***************************************************************************)
(* MessageBase                                                             *)
(***************************************************************************)
\* _keyIdx counts the slots of one message, far fewer than 2^32: the key
\* indexes are plain naturals.
\* value of _keyIdx after dispenseKey(); the key returned is the old value
\* a counter that leaves a gap after every key
dispenseKeyGap(keyIdx) == keyIdx + 2

\* `return _keyIdx;`: the index is returned and not advanced
dispenseKeyStuck(keyIdx) == keyIdx

dispenseKey(keyIdx) == keyIdx + 1

(***************************************************************************)
(* State                                                                   *)
(***************************************************************************)
VARIABLES
    req,        \* the wisc::RPCMsg
    value,      \* the object handed to MessageSerializer::operator<<
    given,      \* history: that object when it was handed over
    previous,   \* history: the holder when it was handed to operator>>
    saveShape,  \* its static type
    loadShape,  \* static type of the holder handed to operator>>
    sKeyIdx,    \* MessageSerializer::_keyIdx
    sStack,     \* pending calls of the serializer, innermost first
    dKeyIdx,    \* MessageDeserializer::_keyIdx
    dStack,     \* pending calls of the deserializer, innermost first
    dMem,       \* [h: the caller's holder, l: the live locals `T val`]
    status,     \* "compiling", "rejected", "saving", "loading", "done", "failed"
    err,        \* exception that ended the load, or "none"
    sKeys,      \* history: keys returned by the serializer's dispenseKey
    dKeys,      \* history: keys returned by the deserializer's dispenseKey
    sLog,       \* history: slots set, [key, kind, p] in order
    dLog,       \* history: gets and emplaces, [ev, key, kind, p] in order
    earlier,    \* history: [n: serializations of the value completed before
                \* the current one, msg: the message the last of them made]
    peer        \* a second call in progress: [msg: its wisc::RPCMsg,
                \* sKeyIdx, dKeyIdx: the _keyIdx of its serializer and of its
                \* deserializer, args: its arguments, loaded: those read back]

vars == << req, value, given, previous, saveShape, loadShape, sKeyIdx, sStack, dKeyIdx, dStack,
           dMem, status, err, sKeys, dKeys, sLog, dLog, earlier, peer >>

serVars == << value, sKeyIdx, sStack, sKeys, sLog >>
desVars == << dKeyIdx, dStack, dMem, err, dKeys, dLog >>

holder == dMem.h

\* A pending call.  op "value" is saveImpl/loadImpl of the object at path p
\* (for a std::tuple, i is the template index I); the other ops are the
\* loops of the composite routines, with their local variables:
\*   i     elements done          n     `length` of serialize(std::vector)
\*   kk    `keysKey`              keys  `keys`
\* lp is the position of the object inside the marshalled value (it differs
\* from p only for the deserializer's locals).
Frame(op, sh, p, lp) ==
    [op |-> op, sh |-> sh, p |-> p, lp |-> lp, i |-> 0, n |-> 0, kk |-> 0,
     keys |-> <<>>]

(***************************************************************************)
(* Initial states: the calls marshalled                                    *)
(***************************************************************************)
\* the arguments (1, 2) of the second call
PeerArgs == << Word(0, 1), Word(0, 2) >>

InitCallInto(ssh, lsh, v, h) ==
    /\ req = EmptyMsg
    /\ value = v
    /\ given = v
    /\ saveShape = ssh
    /\ loadShape = lsh
    /\ sKeyIdx = 0
    /\ sStack = << Frame("value", ssh, <<>>, <<>>) >>
    /\ dKeyIdx = 0
    /\ dStack = << Frame("value", lsh, <<Mem("h")>>, <<>>) >>
    /\ dMem = [h |-> h, l |-> <<>>]
    /\ previous = h
    /\ status = "compiling"
    /\ err = "none"
    /\ sKeys = <<>>
    /\ dKeys = <<>>
    /\ sLog = <<>>
    /\ dLog = <<>>
    /\ earlier = [n |-> 0, msg |-> EmptyMsg]
    /\ peer = [msg |-> EmptyMsg, sKeyIdx |-> 0, dKeyIdx |-> 0,
               args |-> PeerArgs, loaded |-> <<>>]

\* a call whose holder is a value-initialised object
InitCall(ssh, lsh, v) == InitCallInto(ssh, lsh, v, Default(lsh))

\* the holder has the type of the value
InitMatched ==
    \E sh \in {Shapes[i] : i \in 1..Len(Shapes)}
                \cup {BlobShapes[i] : i \in 1..Len(BlobShapes)}
                \cup {ArrayShapes[i] : i \in 1..Len(ArrayShapes)}
                \cup {LongArray} :
        \E v \in Inputs(sh) : InitCall(sh, sh, v)

\* the callee's definition of the call differs from the caller's
InitMismatched ==
    \E i \in 1..Len(Shapes) : \E j \in 1..Len(Shapes) \ {i} :
        \E v \in Values(Shapes[i], TRUE) :
            InitCall(Shapes[i], Shapes[j], v)

\* a std::uint32_t is loaded as a type that is carried in a word, and such
\* a type is loaded as a std::uint32_t
InitReinterpreted ==
    \/ \E w \in PatternWords : \E lsh \in {Bool, U8, U16, Float} :
           InitCall(U32, lsh, w)
    \/ \E ssh \in {Bool, U8, U16, Float} : \E v \in Values(ssh, FALSE) :
           InitCall(ssh, U32, v)

Init == InitMatched \/ InitMismatched \/ InitReinterpreted

\* the maps and the sequences loaded into holders that already have content
MapHolders == << MapU(U32), MapS(Bool) >>
SequenceHolders == << VecU32, VecStr, Vec(U16) >>
NestedHolders == << Vec(MapU(U32)), Vec(Vec(U8)), MapU(Vec(U8)) >>

\* the holder handed to operator>> is not empty: it has the type of the
\* value and any content
InitPopulated ==
    \/ \E sh \in {MapHolders[i] : i \in 1..Len(MapHolders)}
                   \cup {SequenceHolders[i] : i \in 1..Len(SequenceHolders)} :
           \E v \in Values(sh, FALSE) : \E h \in Values(sh, FALSE) :
               InitCallInto(sh, sh, v, h)
    \/ \E sh \in {NestedHolders[i] : i \in 1..Len(NestedHolders)} :
           \E v \in Values(sh, TRUE) : \E h \in Values(sh, TRUE) :
               InitCallInto(sh, sh, v, h)

\* a message whose slot "0" is a list with a repeated key, followed by two
\* slots, is loaded as a map of two entries: the caller sent the tuple
\* (sequence, value, value) and the callee reads a map
InitRepeatedKey ==
    \/ \E k1 \in MapWordKeys : \E k2 \in MapWordKeys :
       \E h \in Values(MapU(U32), TRUE) \cup {[k \in {k1} |-> MaxWord]} :
           InitCallInto(Tuple(<<VecU32, U32, U32>>), MapU(U32),
                        << <<k1, k2>>, Word(0, 1), Word(0, 2) >>, h)
    \/ \E k1 \in MapTextKeys : \E k2 \in MapTextKeys :
       \E h \in Values(MapS(Bool), TRUE) :
           InitCallInto(Tuple(<<VecStr, Bool, Bool>>), MapS(Bool),
                        << <<k1, k2>>, TRUE, FALSE >>, h)

InitInto == InitMatched \/ InitPopulated \/ InitRepeatedKey

(***************************************************************************)
(* MessageSerializer                                                       *)
(***************************************************************************)
STop == Head(sStack)

SAt(op, kinds) ==
    /\ status = "saving"
    /\ Len(sStack) > 0
    /\ STop.op = op
    /\ STop.sh.k \in kinds

\* the call on top returns or is replaced by `frames`
SReturn(frames) ==
    /\ sStack' = frames \o Tail(sStack)
    /\ status' = IF Len(frames) + Len(sStack) = 1 THEN "loading" ELSE "saving"

\* m_wiscMsg->set_<kind>(std::to_string(dispenseKey()), v)
SSet(kind, v) ==
    /\ req' = SetSlot(req, to_string(sKeyIdx), kind, v)
    /\ sKeyIdx' = dispenseKey(sKeyIdx)
    /\ sKeys' = Append(sKeys, sKeyIdx)
    /\ sLog' = Append(sLog, [key |-> sKeyIdx, kind |-> kind, p |-> STop.lp])

\* helper::is_serialize_present<Message, T>: serialize(msg, t) is defined
IsSerializePresent(sh) ==
    sh.k \in {"vec", "arr", "iarr", "vecu32", "vecstr"}
        \/ (sh.k = "agg" /\ sh.mech \in {"serialize", "both"})

\* helper::is_save_present / is_load_present: save(msg, t) / load(msg, t)
\* is defined
IsSplitPresent(sh) ==
    sh.k \in {"bool", "u8", "u16", "float"}
        \/ (sh.k = "agg" /\ sh.mech \in {"split", "both"})

\* types with a saveImpl/loadImpl overload that is not a template, or is a
\* template more specialised than the overloads taking any T
Native(sh) ==
    sh.k \in {"u32", "vecu32", "str", "vecstr", "iarr", "mapu", "maps",
              "holder", "void", "tuple"}

\* the best viable overloads of saveImpl for an argument of type sh
saveImplOverloads(sh) ==
    IF Native(sh) THEN {sh.k}
    ELSE (IF IsSerializePresent(sh) THEN {"serialize"} ELSE {})
         \cup (IF IsSplitPresent(sh) THEN {"save"} ELSE {})
         \cup (IF ~IsSerializePresent(sh) /\ ~IsSplitPresent(sh)
               THEN {"static_assert"} ELSE {})

\* the best viable overloads of loadImpl for an argument of type sh
loadImplOverloads(sh) ==
    IF Native(sh) THEN {sh.k}
    ELSE (IF IsSerializePresent(sh) THEN {"serialize"} ELSE {})
         \cup (IF IsSplitPresent(sh) THEN {"load"} ELSE {})
         \cup (IF ~IsSerializePresent(sh) /\ ~IsSplitPresent(sh)
               THEN {"static_assert"} ELSE {})

\* types of the objects that the routine of an object of type sh passes on
\* to saveImpl/loadImpl
Parts(sh) ==
    CASE sh.k = "tuple" -> {sh.elems[i] : i \in 1..Len(sh.elems)}
      [] sh.k \in {"vec", "arr", "mapu", "maps", "holder", "agg"} -> {sh.elem}
      [] OTHER -> {}

\* the call saveImpl(t), t of type sh, compiles: overload resolution finds
\* one best overload, its static_assert does not fire, and the calls in its
\* body compile
RECURSIVE SaveCompiles(_)
SaveCompiles(sh) ==
    /\ Cardinality(saveImplOverloads(sh)) = 1
    /\ "static_assert" \notin saveImplOverloads(sh)
    /\ \A t \in Parts(sh) : SaveCompiles(t)

RECURSIVE LoadCompiles(_)
LoadCompiles(sh) ==
    /\ Cardinality(loadImplOverloads(sh)) = 1
    /\ "static_assert" \notin loadImplOverloads(sh)
    /\ \A t \in Parts(sh) : LoadCompiles(t)

\* every template is instantiated whatever its static_assert says; the
\* unsupported type is met when the call runs
InstantiateUnchecked ==
    /\ status = "compiling"
    /\ status' = "saving"
    /\ UNCHANGED << req, serVars, desVars, saveShape, loadShape, given, previous, earlier,
                    peer >>

\* the translation unit holding `msg << value` and `msg >> holder` is
\* compiled: operator<< and operator>> instantiate saveImpl and loadImpl
\* for the types involved, and the program exists only when all compile
Instantiate ==
    /\ status = "compiling"
    /\ status' = IF SaveCompiles(saveShape) /\ LoadCompiles(loadShape)
                 THEN "saving" ELSE "rejected"
    /\ UNCHANGED << req, serVars, desVars, saveShape, loadShape, given, previous, earlier,
                    peer >>

\* std::vector<T>::resize(length)
Resize(v, length, d) ==
    [j \in 1..WordNat(length) |-> IF j <= Len(v) THEN v[j] ELSE d]

\* selector of the entry of a map of type sh under key
MapSel(sh, key) == IF sh.k = "mapu" THEN WKey(key) ELSE TKey(key)

\* frame of the call made for the sub-object selected by sel
Sub(f, sh, sel) == Frame("value", sh, Append(f.p, sel), Append(f.lp, sel))

serFrame == << saveShape, loadShape, given, previous, earlier, peer >>

\* saveImpl(const std::uint32_t)
SaveWord ==
    /\ SAt("value", {"u32"})
    /\ SSet("word", GetAt(value, STop.p))
    /\ SReturn(<<>>)
    /\ UNCHANGED << value, serFrame, desVars >>

\* a sequence of words saved as a length word followed by the words
SaveWordArrayPrefixed ==
    /\ SAt("value", {"vecu32"})
    /\ LET v == GetAt(value, STop.p)
       IN  /\ req' = SetSlot(SetSlot(req, to_string(sKeyIdx), "word", ToWord(Len(v))),
                             to_string(sKeyIdx + 1), "word_array", v)
           /\ sKeyIdx' = sKeyIdx + 2
           /\ sKeys' = sKeys \o << sKeyIdx, sKeyIdx + 1 >>
           /\ sLog' = sLog \o << [key |-> sKeyIdx, kind |-> "word", p |-> STop.lp],
                                 [key |-> sKeyIdx + 1, kind |-> "word_array", p |-> STop.lp] >>
    /\ SReturn(<<>>)
    /\ UNCHANGED << value, serFrame, desVars >>

\* saveImpl(const std::vector<std::uint32_t> &)
SaveWordArray ==
    /\ SAt("value", {"vecu32"})
    /\ SSet("word_array", GetAt(value, STop.p))
    /\ SReturn(<<>>)
    /\ UNCHANGED << value, serFrame, desVars >>

\* saveImpl(const std::string &)
SaveString ==
    /\ SAt("value", {"str"})
    /\ SSet("string", GetAt(value, STop.p))
    /\ SReturn(<<>>)
    /\ UNCHANGED << value, serFrame, desVars >>

\* saveImpl(const std::vector<std::string> &)
SaveStringArray ==
    /\ SAt("value", {"vecstr"})
    /\ SSet("string_array", GetAt(value, STop.p))
    /\ SReturn(<<>>)
    /\ UNCHANGED << value, serFrame, desVars >>

\* an integral array handed over as a sequence of words
SaveIntArrayAsWords ==
    /\ SAt("value", {"iarr"})
    /\ SSet("word_array", [i \in 1..STop.sh.n |-> Word(0, GetAt(value, STop.p)[i])])
    /\ SReturn(<<>>)
    /\ UNCHANGED << value, serFrame, desVars >>

\* saveImpl(const std::array<T, N> &), T integral and not bool
SaveIntArray ==
    /\ SAt("value", {"iarr"})
    /\ SSet("binarydata", ToBytes(GetAt(value, STop.p), STop.sh.sz))
    /\ SReturn(<<>>)
    /\ UNCHANGED << value, serFrame, desVars >>

\* a map saved without reserving the key of its key list before its values
SaveMapEnterNoKey ==
    /\ SReturn(<< [STop EXCEPT !.op = "map", !.kk = sKeyIdx] >>)
    /\ UNCHANGED << req, sLog, sKeyIdx, sKeys >>

\* a map whose key list is written before its values are saved
SaveMapEnterEager ==
    /\ sKeyIdx' = dispenseKey(sKeyIdx)
    /\ sKeys' = Append(sKeys, sKeyIdx)
    /\ req' = IF STop.sh.k = "mapu"
              THEN SetSlot(req, to_string(sKeyIdx), "word_array",
                           SortedWords(DOMAIN GetAt(value, STop.p)))
              ELSE SetSlot(req, to_string(sKeyIdx), "string_array",
                           SortedTexts(DOMAIN GetAt(value, STop.p)))
    /\ SReturn(<< [STop EXCEPT !.op = "map", !.kk = sKeyIdx] >>)
    /\ UNCHANGED sLog

\* const auto keysKey = dispenseKey(); std::vector<K> keys{};
SaveMapEnter ==
    /\ sKeyIdx' = dispenseKey(sKeyIdx)
    /\ sKeys' = Append(sKeys, sKeyIdx)
    /\ SReturn(<< [STop EXCEPT !.op = "map", !.kk = sKeyIdx] >>)
    /\ UNCHANGED << req, sLog >>

\* one turn of `for (const auto & elem : value)`, elements in `order`, or,
\* after the last one, m_wiscMsg->set_<kind>(std::to_string(keysKey), keys)
SaveMapStep(order, kind) ==
    IF STop.i < Len(order)
    THEN LET key == order[STop.i + 1]
         IN  /\ SReturn(<< Sub(STop, STop.sh.elem, MapSel(STop.sh, key)),
                           [STop EXCEPT !.i = @ + 1, !.keys = Append(@, key)] >>)
             /\ UNCHANGED << req, sKeyIdx, sKeys, sLog >>
    ELSE /\ req' = SetSlot(req, to_string(STop.kk), kind, STop.keys)
         /\ sLog' = Append(sLog, [key |-> STop.kk, kind |-> kind, p |-> STop.lp])
         /\ SReturn(<<>>)
         /\ UNCHANGED << sKeyIdx, sKeys >>

\* saveImpl(const std::map<std::uint32_t, T> &)
SaveMapWord ==
    /\ \/ SAt("value", {"mapu"}) /\ SaveMapEnter
       \/ /\ SAt("map", {"mapu"})
          /\ SaveMapStep(SortedWords(DOMAIN GetAt(value, STop.p)), "word_array")
    /\ UNCHANGED << value, serFrame, desVars >>

\* saveImpl(const std::map<std::string, T> &)
SaveMapString ==
    /\ \/ SAt("value", {"maps"}) /\ SaveMapEnter
       \/ /\ SAt("map", {"maps"})
          /\ SaveMapStep(SortedTexts(DOMAIN GetAt(value, STop.p)), "string_array")
    /\ UNCHANGED << value, serFrame, desVars >>

\* a holder saved as a presence word followed by the value
SaveHolderTagged ==
    /\ SAt("value", {"holder"})
    /\ SSet("word", Word(0, 1))
    /\ SReturn(<< Sub(STop, STop.sh.elem, Idx(1)) >>)
    /\ UNCHANGED << value, serFrame, desVars >>

\* saveImpl(const compat::void_holder<T> &): saveImpl(holder.get())
SaveHolder ==
    /\ SAt("value", {"holder"})
    /\ SReturn(<< Sub(STop, STop.sh.elem, Idx(1)) >>)
    /\ UNCHANGED << req, value, sKeyIdx, sKeys, sLog, serFrame, desVars >>

\* a void holder that takes a key without writing a slot
SaveVoidHolderKeyed ==
    /\ SAt("value", {"void"})
    /\ sKeyIdx' = dispenseKey(sKeyIdx)
    /\ sKeys' = Append(sKeys, sKeyIdx)
    /\ SReturn(<<>>)
    /\ UNCHANGED << req, value, sLog, serFrame, desVars >>

\* saveImpl(compat::void_holder<void>)
SaveVoidHolder ==
    /\ SAt("value", {"void"})
    /\ SReturn(<<>>)
    /\ UNCHANGED << req, value, sKeyIdx, sKeys, sLog, serFrame, desVars >>

\* a recursion over the tuple that starts at its last element
SaveTupleFromLast ==
    /\ SAt("value", {"tuple"})
    /\ STop.i < Len(STop.sh.elems)
    /\ LET I == Len(STop.sh.elems) - STop.i
       IN  SReturn(<< Sub(STop, STop.sh.elems[I], Idx(I)),
                      [STop EXCEPT !.i = @ + 1] >>)
    /\ UNCHANGED << req, value, sKeyIdx, sKeys, sLog, serFrame, desVars >>

\* saveImpl<I>(const std::tuple<Args...> &), I < sizeof...(Args)
SaveTuple ==
    /\ SAt("value", {"tuple"})
    /\ STop.i < Len(STop.sh.elems)
    /\ SReturn(<< Sub(STop, STop.sh.elems[STop.i + 1], Idx(STop.i + 1)),
                  [STop EXCEPT !.i = @ + 1] >>)
    /\ UNCHANGED << req, value, sKeyIdx, sKeys, sLog, serFrame, desVars >>

\* saveImpl<I>(const std::tuple<Args...> &), I == sizeof...(Args)
SaveTupleEnd ==
    /\ SAt("value", {"tuple"})
    /\ STop.i = Len(STop.sh.elems)
    /\ SReturn(<<>>)
    /\ UNCHANGED << req, value, sKeyIdx, sKeys, sLog, serFrame, desVars >>

\* saveImpl(const T &) with a serialize routine: serialize(*this, t)
SaveSerialize ==
    /\ SAt("value", {"vec", "arr", "agg"})
    /\ IsSerializePresent(STop.sh)
    /\ SReturn(<< [STop EXCEPT !.op = "serialize"] >>)
    /\ UNCHANGED << req, value, sKeyIdx, sKeys, sLog, serFrame, desVars >>

\* saveImpl(const T &) with a split routine: save(*this, t)
SaveSplit ==
    /\ SAt("value", {"bool", "u8", "u16", "float", "agg"})
    /\ IsSplitPresent(STop.sh)
    /\ SReturn(<< [STop EXCEPT !.op = "save"] >>)
    /\ UNCHANGED << req, value, sKeyIdx, sKeys, sLog, serFrame, desVars >>

\* an array saved like a sequence, with a length word before the elements
SaveArrayPrefixed ==
    /\ \/ /\ SAt("serialize", {"arr"})
          /\ SSet("word", ToWord(STop.sh.n))
          /\ SReturn(<< [STop EXCEPT !.op = "array"] >>)
       \/ /\ SAt("array", {"arr"})
          /\ IF STop.i < STop.sh.n
             THEN SReturn(<< Sub(STop, STop.sh.elem, Idx(STop.i + 1)),
                             [STop EXCEPT !.i = @ + 1] >>)
             ELSE SReturn(<<>>)
          /\ UNCHANGED << req, sKeyIdx, sKeys, sLog >>
    /\ UNCHANGED << value, serFrame, desVars >>

\* serialize(MessageSerializer &, std::array<T, N> &)
SaveArray ==
    /\ SAt("serialize", {"arr"})
    /\ IF STop.i < STop.sh.n
       THEN SReturn(<< Sub(STop, STop.sh.elem, Idx(STop.i + 1)),
                       [STop EXCEPT !.i = @ + 1] >>)
       ELSE SReturn(<<>>)
    /\ UNCHANGED << req, value, sKeyIdx, sKeys, sLog, serFrame, desVars >>

\* a sequence saved as its elements alone, without the length word
SaveVectorUnprefixed ==
    /\ \/ /\ SAt("serialize", {"vec"})
          /\ SReturn(<< [STop EXCEPT !.op = "vector",
                                     !.n = Len(GetAt(value, STop.p))] >>)
          /\ UNCHANGED << req, value, sKeyIdx, sKeys, sLog >>
       \/ /\ SAt("vector", {"vec"})
          /\ IF STop.i < STop.n
             THEN SReturn(<< Sub(STop, STop.sh.elem, Idx(STop.i + 1)),
                             [STop EXCEPT !.i = @ + 1] >>)
             ELSE SReturn(<<>>)
          /\ UNCHANGED << req, value, sKeyIdx, sKeys, sLog >>
    /\ UNCHANGED << serFrame, desVars >>

\* a save of a sequence that leaves it one element longer
SaveVectorGrowing ==
    /\ \/ /\ SAt("serialize", {"vec"})
          /\ LET v == GetAt(value, STop.p)
                 length == ToWord(Len(v))
             IN  /\ SSet("word", length)
                 /\ value' = SetAt(value, STop.p,
                                   Resize(v, ToWord(Len(v) + 1), Default(STop.sh.elem)))
                 /\ SReturn(<< [STop EXCEPT !.op = "vector", !.n = WordNat(length)] >>)
       \/ /\ SAt("vector", {"vec"})
          /\ IF STop.i < STop.n
             THEN SReturn(<< Sub(STop, STop.sh.elem, Idx(STop.i + 1)),
                             [STop EXCEPT !.i = @ + 1] >>)
             ELSE SReturn(<<>>)
          /\ UNCHANGED << req, value, sKeyIdx, sKeys, sLog >>
    /\ UNCHANGED << serFrame, desVars >>

\* serialize(MessageSerializer &, std::vector<T> &)
SaveVector ==
    /\ \/ /\ SAt("serialize", {"vec"})
          /\ LET v == GetAt(value, STop.p)
                 length == ToWord(Len(v))
             IN  /\ SSet("word", length)
                 /\ value' = SetAt(value, STop.p, Resize(v, length, Default(STop.sh.elem)))
                 /\ SReturn(<< [STop EXCEPT !.op = "vector", !.n = WordNat(length)] >>)
       \/ /\ SAt("vector", {"vec"})
          /\ IF STop.i < STop.n
             THEN SReturn(<< Sub(STop, STop.sh.elem, Idx(STop.i + 1)),
                             [STop EXCEPT !.i = @ + 1] >>)
             ELSE SReturn(<<>>)
          /\ UNCHANGED << req, value, sKeyIdx, sKeys, sLog >>
    /\ UNCHANGED << serFrame, desVars >>

\* the user's routine of an aggregate, touching the members in `order`
SaveMembers(order) ==
    IF STop.i < Len(order)
    THEN SReturn(<< Sub(STop, STop.sh.elem, Mem(order[STop.i + 1])),
                    [STop EXCEPT !.i = @ + 1] >>)
    ELSE SReturn(<<>>)

\* T::serialize(MessageSerializer &): msg & x & y
SaveAggSerialize ==
    /\ SAt("serialize", {"agg"})
    /\ SaveMembers(STop.sh.sorder)
    /\ UNCHANGED << req, value, sKeyIdx, sKeys, sLog, serFrame, desVars >>

\* T::save(MessageSerializer &): msg << a << b << c
SaveAggSave ==
    /\ SAt("save", {"agg"})
    /\ SaveMembers(STop.sh.sorder)
    /\ UNCHANGED << req, value, sKeyIdx, sKeys, sLog, serFrame, desVars >>

\* save(Message &, const bool &)
SaveBool ==
    /\ SAt("save", {"bool"})
    /\ SSet("word", BoolToWord(GetAt(value, STop.p)))
    /\ SReturn(<<>>)
    /\ UNCHANGED << value, serFrame, desVars >>

\* save(Message &, const std::uint8_t &)
SaveU8 ==
    /\ SAt("save", {"u8"})
    /\ SSet("word", NarrowToWord(GetAt(value, STop.p)))
    /\ SReturn(<<>>)
    /\ UNCHANGED << value, serFrame, desVars >>

\* save(Message &, const std::uint16_t &)
SaveU16 ==
    /\ SAt("save", {"u16"})
    /\ SSet("word", NarrowToWord(GetAt(value, STop.p)))
    /\ SReturn(<<>>)
    /\ UNCHANGED << value, serFrame, desVars >>

\* save(Message &, const float &)
SaveFloat ==
    /\ SAt("save", {"float"})
    /\ SSet("word", FloatToWord(GetAt(value, STop.p)))
    /\ SReturn(<<>>)
    /\ UNCHANGED << value, serFrame, desVars >>

Save ==
    \/ SaveWord \/ SaveWordArray \/ SaveString \/ SaveStringArray
    \/ SaveIntArray \/ SaveMapWord \/ SaveMapString \/ SaveHolder
    \/ SaveVoidHolder \/ SaveTuple \/ SaveTupleEnd \/ SaveSerialize
    \/ SaveSplit \/ SaveArray \/ SaveVector \/ SaveAggSerialize
    \/ SaveAggSave \/ SaveBool \/ SaveU8 \/ SaveU16 \/ SaveFloat

(***************************************************************************)
(* MessageDeserializer                                                     *)
(***************************************************************************)
DTop == Head(dStack)

DAt(op, kinds) ==
    /\ status = "loading"
    /\ Len(dStack) > 0
    /\ DTop.op = op
    /\ DTop.sh.k \in kinds

\* the call on top returns or is replaced by `frames`
DReturn(frames) ==
    /\ dStack' = frames \o Tail(dStack)
    /\ status' = IF Len(frames) + Len(dStack) = 1 THEN "done" ELSE "loading"
    /\ err' = err

\* a failure that restores the holder before it is reported
DThrowRollback(e) ==
    /\ dStack' = <<>>
    /\ dMem' = [h |-> Default(loadShape), l |-> <<>>]
    /\ status' = "failed"
    /\ err' = e

\* a failure that is noted, after which the load goes on with the next object
DThrowSkip(e) ==
    /\ dStack' = Tail(dStack)
    /\ dMem' = dMem
    /\ status' = IF Len(dStack) = 1 THEN "done" ELSE "loading"
    /\ err' = e

\* a getter throws e: every pending call is unwound and its locals are
\* destroyed; the exception leaves operator>>
DThrow(e) ==
    /\ dStack' = <<>>
    /\ dMem' = [dMem EXCEPT !.l = <<>>]
    /\ status' = "failed"
    /\ err' = e

\* m_wiscMsg->get_<kind>(std::to_string(dispenseKey())): the part done
\* whether or not the getter throws
DGet(kind) ==
    /\ req' = AfterGet(req, to_string(dKeyIdx))
    /\ dKeyIdx' = dispenseKey(dKeyIdx)
    /\ dKeys' = Append(dKeys, dKeyIdx)
    /\ dLog' = Append(dLog, [ev |-> "get", key |-> dKeyIdx, kind |-> kind, p |-> DTop.lp])

\* what the getter throws
DErr(kind) == GetError(req, to_string(dKeyIdx), kind)

\* what the getter returns
DVal == GetValue(req, to_string(dKeyIdx))

\* the object on top is assigned v, computed from what
\* m_wiscMsg->get_<kind>(std::to_string(dispenseKey())) returns
DLoad(kind, v) ==
    /\ DGet(kind)
    /\ IF DErr(kind) # "none"
       THEN DThrow(DErr(kind))
       ELSE /\ dMem' = SetAt(dMem, DTop.p, v)
            /\ DReturn(<<>>)

desFrame == << saveShape, loadShape, given, previous, earlier, peer, serVars >>

\* loadImpl(uint32_t &)
LoadWord ==
    /\ DAt("value", {"u32"})
    /\ DLoad("word", DVal)
    /\ UNCHANGED desFrame

\* loadImpl(std::vector<std::uint32_t> &)
LoadWordArray ==
    /\ DAt("value", {"vecu32"})
    /\ DLoad("word_array", DVal)
    /\ UNCHANGED desFrame

\* loadImpl(std::string &)
LoadString ==
    /\ DAt("value", {"str"})
    /\ DLoad("string", DVal)
    /\ UNCHANGED desFrame

\* loadImpl(std::vector<std::string> &)
LoadStringArray ==
    /\ DAt("value", {"vecstr"})
    /\ DLoad("string_array", DVal)
    /\ UNCHANGED desFrame

\* loadImpl(std::array<T, N> &), T integral and not bool.  Every integral
\* array of Shapes takes two bytes and those of BlobShapes are loaded from
\* their own blobs only, so the blob always fills the buffer.
LoadIntArray ==
    /\ DAt("value", {"iarr"})
    /\ DLoad("binarydata", FromBytes(DVal, DTop.sh.sz))
    /\ UNCHANGED desFrame

\* const auto keys = m_wiscMsg->get_<kind>(std::to_string(dispenseKey()))
LoadMapEnter(kind) ==
    /\ DGet(kind)
    /\ IF DErr(kind) # "none"
       THEN DThrow(DErr(kind))
       ELSE /\ DReturn(<< [DTop EXCEPT !.op = "map", !.keys = DVal] >>)
            /\ dMem' = dMem

\* one turn of `for (const auto & key: keys)` up to the call loadImpl(val),
\* with the local `T val` created, or the return after the last turn.
\* (A scalar `val` is indeterminate until loadImpl(val) assigns it, which
\* happens before it is read; it is created here with the value Default.)
LoadMapStep ==
    /\ IF DTop.i < Len(DTop.keys)
       THEN /\ dMem' = [dMem EXCEPT !.l = Append(@, Default(DTop.sh.elem))]
            /\ DReturn(<< Frame("value", DTop.sh.elem,
                                << Mem("l"), Idx(Len(dMem.l) + 1) >>,
                                Append(DTop.lp, MapSel(DTop.sh, DTop.keys[DTop.i + 1]))),
                          [DTop EXCEPT !.op = "emplace"] >>)
       ELSE /\ dMem' = dMem
            /\ DReturn(<<>>)
    /\ UNCHANGED << req, dKeyIdx, dKeys, dLog >>

\* an insertion that replaces the value of a key that is present
EmplaceOverwriting(m, key, val) ==
    [x \in DOMAIN m \cup {key} |-> IF x = key THEN val ELSE m[x]]

\* std::map::emplace(key, val): inserts unless the key is present
Emplace(m, key, val) ==
    IF key \in DOMAIN m THEN m
    ELSE [x \in DOMAIN m \cup {key} |-> IF x = key THEN val ELSE m[x]]

\* value.emplace(key, std::move(val)) and the end of the turn: val dies
LoadMapEmplace ==
    LET key == DTop.keys[DTop.i + 1]
        val == dMem.l[Len(dMem.l)]
        m   == GetAt(dMem, DTop.p)
        put == SetAt(dMem, DTop.p, Emplace(m, key, val))
    IN  /\ dMem' = [put EXCEPT !.l = SubSeq(@, 1, Len(@) - 1)]
        /\ dLog' = Append(dLog, [ev |-> "emplace", key |-> dKeyIdx, kind |-> "",
                                 p |-> Append(DTop.lp, MapSel(DTop.sh, key))])
        /\ DReturn(<< [DTop EXCEPT !.op = "map", !.i = @ + 1] >>)
        /\ UNCHANGED << req, dKeyIdx, dKeys >>

\* loadImpl(std::map<std::uint32_t, T> &)
LoadMapWord ==
    /\ \/ DAt("value", {"mapu"}) /\ LoadMapEnter("word_array")
       \/ DAt("map", {"mapu"}) /\ LoadMapStep
       \/ DAt("emplace", {"mapu"}) /\ LoadMapEmplace
    /\ UNCHANGED desFrame

\* loadImpl(std::map<std::string, T> &)
LoadMapString ==
    /\ \/ DAt("value", {"maps"}) /\ LoadMapEnter("string_array")
       \/ DAt("map", {"maps"}) /\ LoadMapStep
       \/ DAt("emplace", {"maps"}) /\ LoadMapEmplace
    /\ UNCHANGED desFrame

desCall == << req, dKeyIdx, dKeys, dLog, dMem >>

\* loadImpl(compat::void_holder<T> &): loadImpl(value.get())
LoadHolder ==
    /\ DAt("value", {"holder"})
    /\ DReturn(<< Sub(DTop, DTop.sh.elem, Idx(1)) >>)
    /\ UNCHANGED << desCall, desFrame >>

\* loadImpl(compat::void_holder<void>)
LoadVoidHolder ==
    /\ DAt("value", {"void"})
    /\ DReturn(<<>>)
    /\ UNCHANGED << desCall, desFrame >>

\* loadImpl<I>(std::tuple<Args...> &), I < sizeof...(Args)
LoadTuple ==
    /\ DAt("value", {"tuple"})
    /\ DTop.i < Len(DTop.sh.elems)
    /\ DReturn(<< Sub(DTop, DTop.sh.elems[DTop.i + 1], Idx(DTop.i + 1)),
                  [DTop EXCEPT !.i = @ + 1] >>)
    /\ UNCHANGED << desCall, desFrame >>

\* a terminal call that refuses to return while the message holds slots that
\* the outermost tuple has not read
LoadTupleEndStrict ==
    /\ DAt("value", {"tuple"})
    /\ DTop.i = Len(DTop.sh.elems)
    /\ IF Len(dStack) = 1 /\ Cardinality(DOMAIN req) > dKeyIdx
       THEN DThrow("BadKey")
       ELSE DReturn(<<>>) /\ dMem' = dMem
    /\ UNCHANGED << req, dKeyIdx, dKeys, dLog, desFrame >>

\* loadImpl<I>(std::tuple<Args...> &), I == sizeof...(Args)
LoadTupleEnd ==
    /\ DAt("value", {"tuple"})
    /\ DTop.i = Len(DTop.sh.elems)
    /\ DReturn(<<>>)
    /\ UNCHANGED << desCall, desFrame >>

\* loadImpl(T &) with a serialize routine: serialize(*this, t)
LoadSerialize ==
    /\ DAt("value", {"vec", "arr", "agg"})
    /\ IsSerializePresent(DTop.sh)
    /\ DReturn(<< [DTop EXCEPT !.op = "serialize"] >>)
    /\ UNCHANGED << desCall, desFrame >>

\* loadImpl(T &) with a split routine: load(*this, t)
LoadSplit ==
    /\ DAt("value", {"bool", "u8", "u16", "float", "agg"})
    /\ IsSplitPresent(DTop.sh)
    /\ DReturn(<< [DTop EXCEPT !.op = "load"] >>)
    /\ UNCHANGED << desCall, desFrame >>

\* serialize(MessageDeserializer &, std::array<T, N> &)
LoadArray ==
    /\ DAt("serialize", {"arr"})
    /\ IF DTop.i < DTop.sh.n
       THEN DReturn(<< Sub(DTop, DTop.sh.elem, Idx(DTop.i + 1)),
                       [DTop EXCEPT !.i = @ + 1] >>)
       ELSE DReturn(<<>>)
    /\ UNCHANGED << desCall, desFrame >>

\* a load of a sequence that fills the elements the holder has, whatever
\* the length stored in the message
LoadVectorHolderLength ==
    /\ \/ /\ DAt("serialize", {"vec"})
          /\ DGet("word")
          /\ IF DErr("word") # "none"
             THEN DThrow(DErr("word"))
             ELSE /\ dMem' = dMem
                  /\ DReturn(<< [DTop EXCEPT !.op = "vector",
                                             !.n = Len(GetAt(dMem, DTop.p))] >>)
       \/ /\ DAt("vector", {"vec"})
          /\ IF DTop.i < DTop.n
             THEN DReturn(<< Sub(DTop, DTop.sh.elem, Idx(DTop.i + 1)),
                             [DTop EXCEPT !.i = @ + 1] >>)
             ELSE DReturn(<<>>)
          /\ UNCHANGED desCall
    /\ UNCHANGED desFrame

\* serialize(MessageDeserializer &, std::vector<T> &)
LoadVector ==
    /\ \/ /\ DAt("serialize", {"vec"})
          /\ DGet("word")
          /\ IF DErr("word") # "none"
             THEN DThrow(DErr("word"))
             ELSE LET length == DVal
                  IN  /\ dMem' = SetAt(dMem, DTop.p,
                                       Resize(GetAt(dMem, DTop.p), length,
                                              Default(DTop.sh.elem)))
                      /\ DReturn(<< [DTop EXCEPT !.op = "vector",
                                                 !.n = WordNat(length)] >>)
       \/ /\ DAt("vector", {"vec"})
          /\ IF DTop.i < DTop.n
             THEN DReturn(<< Sub(DTop, DTop.sh.elem, Idx(DTop.i + 1)),
                             [DTop EXCEPT !.i = @ + 1] >>)
             ELSE DReturn(<<>>)
          /\ UNCHANGED desCall
    /\ UNCHANGED desFrame

\* the user's routine of an aggregate, touching the members in `order`
LoadMembers(order) ==
    IF DTop.i < Len(order)
    THEN DReturn(<< Sub(DTop, DTop.sh.elem, Mem(order[DTop.i + 1])),
                    [DTop EXCEPT !.i = @ + 1] >>)
    ELSE DReturn(<<>>)

\* T::serialize(MessageDeserializer &): msg & x & y
LoadAggSerialize ==
    /\ DAt("serialize", {"agg"})
    /\ LoadMembers(DTop.sh.sorder)
    /\ UNCHANGED << desCall, desFrame >>

\* a load that follows the order of the save hook whatever the load hook says
LoadAggLoadInSaveOrder ==
    /\ DAt("load", {"agg"})
    /\ LoadMembers(DTop.sh.sorder)
    /\ UNCHANGED << desCall, desFrame >>

\* T::load(MessageDeserializer &): msg >> a >> b >> c
LoadAggLoad ==
    /\ DAt("load", {"agg"})
    /\ LoadMembers(DTop.sh.lorder)
    /\ UNCHANGED << desCall, desFrame >>

\* a load of bool that takes a word other than 0 and 1 for a slot of
\* another type
LoadBoolStrict ==
    /\ DAt("load", {"bool"})
    /\ DGet("word")
    /\ IF DErr("word") # "none"
       THEN DThrow(DErr("word"))
       ELSE IF DVal \notin {Word(0, 0), Word(0, 1)}
       THEN DThrow("Type")
       ELSE /\ dMem' = SetAt(dMem, DTop.p, WordToBool(DVal))
            /\ DReturn(<<>>)
    /\ UNCHANGED desFrame

\* load(Message &, bool &)
LoadBool ==
    /\ DAt("load", {"bool"})
    /\ DLoad("word", WordToBool(DVal))
    /\ UNCHANGED desFrame

\* load(Message &, std::uint8_t &)
LoadU8 ==
    /\ DAt("load", {"u8"})
    /\ DLoad("word", WordToU8(DVal))
    /\ UNCHANGED desFrame

\* load(Message &, std::uint16_t &)
LoadU16 ==
    /\ DAt("load", {"u16"})
    /\ DLoad("word", WordToU16(DVal))
    /\ UNCHANGED desFrame

\* load(Message &, float &)
LoadFloat ==
    /\ DAt("load", {"float"})
    /\ DLoad("word", WordToFloat(DVal))
    /\ UNCHANGED desFrame

Load ==
    \/ LoadWord \/ LoadWordArray \/ LoadString \/ LoadStringArray
    \/ LoadIntArray \/ LoadMapWord \/ LoadMapString \/ LoadHolder
    \/ LoadVoidHolder \/ LoadTuple \/ LoadTupleEnd \/ LoadSerialize
    \/ LoadSplit \/ LoadArray \/ LoadVector \/ LoadAggSerialize
    \/ LoadAggLoad \/ LoadBool \/ LoadU8 \/ LoadU16 \/ LoadFloat

Next == Instantiate \/ Save \/ Load

Spec == Init /\ [][Next]_vars

(***************************************************************************)
(* The value is serialized twice, each time by a MessageSerializer of its  *)
(* own into a wisc::RPCMsg of its own                                      *)
(***************************************************************************)
\* a second serializer that goes on from the key index of the first
SaveAgainSharedIndex ==
    /\ status = "loading"
    /\ earlier.n = 0
    /\ earlier' = [n |-> 1, msg |-> req]
    /\ req' = EmptyMsg
    /\ sKeyIdx' = sKeyIdx
    /\ sStack' = << Frame("value", saveShape, <<>>, <<>>) >>
    /\ sKeys' = <<>>
    /\ sLog' = <<>>
    /\ status' = "saving"
    /\ UNCHANGED << value, saveShape, loadShape, given, previous, desVars, peer >>

\* the first message is put aside; a new MessageSerializer (_keyIdx = 0) on
\* an empty message is handed the same object
SaveAgain ==
    /\ status = "loading"
    /\ earlier.n = 0
    /\ earlier' = [n |-> 1, msg |-> req]
    /\ req' = EmptyMsg
    /\ sKeyIdx' = 0
    /\ sStack' = << Frame("value", saveShape, <<>>, <<>>) >>
    /\ sKeys' = <<>>
    /\ sLog' = <<>>
    /\ status' = "saving"
    /\ UNCHANGED << value, saveShape, loadShape, given, previous, desVars, peer >>

NextTwice == Instantiate \/ Save \/ SaveAgain

SpecTwice == InitMatched /\ [][NextTwice]_vars

(***************************************************************************)
(* Two calls in progress at once.  The first is the call above; the second *)
(* marshals two std::uint32_t arguments with a MessageSerializer and a     *)
(* MessageDeserializer of its own on a wisc::RPCMsg of its own, its steps  *)
(* interleaved with those of the first.                                    *)
(***************************************************************************)
\* the second call serializes into the message of the first
PeerSaveShared ==
    /\ peer.sKeyIdx < Len(peer.args)
    /\ req' = set_word(req, to_string(peer.sKeyIdx), peer.args[peer.sKeyIdx + 1])
    /\ peer' = [peer EXCEPT !.sKeyIdx = dispenseKey(peer.sKeyIdx)]
    /\ UNCHANGED << serVars, desVars, saveShape, loadShape, given, previous, earlier, status >>

\* saveImpl(const std::uint32_t) of the serializer of the second call
PeerSave ==
    /\ peer.sKeyIdx < Len(peer.args)
    /\ peer' = [peer EXCEPT
                   !.msg = set_word(peer.msg, to_string(peer.sKeyIdx),
                                    peer.args[peer.sKeyIdx + 1]),
                   !.sKeyIdx = dispenseKey(peer.sKeyIdx)]
    /\ UNCHANGED << req, serVars, desVars, saveShape, loadShape, given, previous, earlier,
                    status >>

\* loadImpl(uint32_t &) of the deserializer of the second call
PeerLoad ==
    /\ peer.sKeyIdx = Len(peer.args)
    /\ peer.dKeyIdx < Len(peer.args)
    /\ GetError(peer.msg, to_string(peer.dKeyIdx), "word") = "none"
    /\ peer' = [peer EXCEPT
                   !.loaded = Append(@, GetValue(peer.msg, to_string(peer.dKeyIdx))),
                   !.dKeyIdx = dispenseKey(peer.dKeyIdx)]
    /\ UNCHANGED << req, serVars, desVars, saveShape, loadShape, given, previous, earlier,
                    status >>

NextCalls == Next \/ PeerSave \/ PeerLoad

SpecInto == InitInto /\ [][Next]_vars

SpecCalls == InitMatched /\ [][NextCalls]_vars

(***************************************************************************)
(* Properties                                                              *)
(***************************************************************************)
Matched == saveShape = loadShape

\* C1  Round trip: when a value has been saved by a fresh serializer and
\* loaded by a fresh deserializer into a default-constructed holder of the
\* same type (whose hooks agree on the member order), the load has
\* succeeded and the holder equals the value that was given.
RoundTrip ==
    (Matched /\ HooksAgree(saveShape) /\ status \in {"done", "failed"})
        => (status = "done" /\ holder = given)

\* a nested value with maximum and zero words has made the round trip
RoundTripWitness ==
    /\ status = "done"
    /\ Matched
    /\ saveShape = Vec(MapU(IArr(1, 2)))
    /\ Len(given) = MaxLen
    /\ \E i \in 1..Len(given) : DOMAIN given[i] = MapWordKeys
    /\ holder = given

\* the slots touched by a pass, each with the sub-object it belongs to
SlotMap(log) ==
    {[key |-> log[i].key, kind |-> log[i].kind, p |-> log[i].p] : i \in 1..Len(log)}

IsGet(e) == e.ev = "get"
Gets == SelectSeq(dLog, IsGet)

\* C2  Key invariant: when a value has been saved and a holder of the same
\* type loaded, the load has succeeded, the deserializer has dispensed the
\* very sequence of keys the serializer dispensed, both key counters are
\* equal and (the hooks agreeing on the member order) every key belongs to
\* the same sub-object of the same slot kind on both sides, at every depth.
KeyInvariant ==
    (Matched /\ status \in {"done", "failed"})
        => /\ status = "done"
           /\ dKeys = sKeys
           /\ dKeyIdx = sKeyIdx
           /\ HooksAgree(saveShape) => SlotMap(Gets) = SlotMap(sLog)

\* both passes over a sequence of two full maps of arrays are finished
KeyInvariantWitness ==
    /\ status = "done"
    /\ Matched
    /\ saveShape = Vec(MapU(IArr(1, 2)))
    /\ Len(given) = MaxLen
    /\ \A i \in 1..Len(given) : DOMAIN given[i] = MapWordKeys
    /\ Len(sKeys) = 1 + 3 * MaxLen
    /\ dKeys = sKeys

\* C3  Key allocator: the keys returned by the dispenseKey calls of one
\* serializer, and of one deserializer, are 0, 1, ..., n-1 in that order,
\* and the counter is the number of calls made.
KeyAllocator ==
    /\ \A i \in 1..Len(sKeys) : sKeys[i] = i - 1
    /\ sKeyIdx = Len(sKeys)
    /\ \A i \in 1..Len(dKeys) : dKeys[i] = i - 1
    /\ dKeyIdx = Len(dKeys)

\* both allocators have been called at least four times
KeyAllocatorWitness == Len(sKeys) >= 4 /\ Len(dKeys) >= 4

\* the message holds, under the key written as the digit d, a slot of that
\* kind and value
HasSlot(d, kind, val) ==
    /\ <<48 + d>> \in DOMAIN req
    /\ req[<<48 + d>>].kind = kind
    /\ req[<<48 + d>>].val = val

ExampleCall == Matched /\ saveShape = ExampleShape /\ given = ExampleArgs

\* C4 as stated: the example tuple (42, [1,2,3], "oh0") is saved as key 0 =
\* 42, key 1 = 3 (the length), keys 2, 3, 4 = 1, 2, 3 and key 5 = "oh0", and
\* is loaded back.
ExampleAsStated ==
    (ExampleCall /\ status = "done")
        => /\ HasSlot(0, "word", Word(0, 42))
           /\ HasSlot(1, "word", Word(0, 3))
           /\ HasSlot(2, "word", Word(0, 1))
           /\ HasSlot(3, "word", Word(0, 2))
           /\ HasSlot(4, "word", Word(0, 3))
           /\ HasSlot(5, "string", Text_oh0)
           /\ holder = ExampleArgs

\* C4 amended: the example tuple (42, [1,2,3], "oh0") is saved in exactly
\* three slots, key 0 = the word 42, key 1 = the word sequence [1,2,3] (one
\* slot, no length word), key 2 = the text "oh0", and loading with the same
\* tuple definition succeeds and reproduces the tuple.
ExampleScenario ==
    (ExampleCall /\ status \in {"done", "failed"})
        => /\ status = "done"
           /\ DOMAIN req = {<<48>>, <<49>>, <<50>>}
           /\ HasSlot(0, "word", Word(0, 42))
           /\ HasSlot(1, "word_array", <<Word(0, 1), Word(0, 2), Word(0, 3)>>)
           /\ HasSlot(2, "string", Text_oh0)
           /\ sKeyIdx = 3
           /\ holder = ExampleArgs

\* the example tuple has been saved and loaded
ExampleWitness == ExampleCall /\ status = "done" /\ dKeyIdx = 3

\* the get recorded as e found its key, with a slot of the kind asked for
GetOk(e) ==
    /\ to_string(e.key) \in DOMAIN req
    /\ req[to_string(e.key)].kind = e.kind

BothTuples == saveShape.k = "tuple" /\ loadShape.k = "tuple"

\* C5 as stated: a message made from a tuple and loaded with another tuple
\* definition always fails, with a missing-key or a type-mismatch error.
MismatchAlwaysFails ==
    (BothTuples /\ ~Matched /\ status \in {"done", "failed"})
        => (status = "failed" /\ err \in {"BadKey", "Type"})

\* C5 amended: a message made from a tuple and loaded with another tuple
\* definition fails exactly when the load reaches a key the message does
\* not hold (missing key) or a slot of another kind than the holder expects
\* (type mismatch), and that get is the last one; a definition whose keys
\* and slot kinds all fit the message is loaded successfully, whether or
\* not every slot of the message has been read.
MismatchOutcome ==
    (BothTuples /\ ~Matched /\ status \in {"done", "failed"})
        => /\ \A i \in 1..(Len(Gets) - 1) : GetOk(Gets[i])
           /\ status = "done" => (err = "none" /\ \A i \in 1..Len(Gets) : GetOk(Gets[i]))
           /\ status = "failed" =>
                 /\ Len(Gets) > 0
                 /\ ~GetOk(Gets[Len(Gets)])
                 /\ err = IF to_string(Gets[Len(Gets)].key) \in DOMAIN req
                          THEN "Type" ELSE "BadKey"

\* a two-argument call was loaded with the one-argument definition: the
\* load succeeded and left the second slot unread
MismatchWitness ==
    /\ status = "done"
    /\ saveShape = Tuple(<<U32, U32>>)
    /\ loadShape = Tuple(<<U32>>)
    /\ dKeyIdx = 1
    /\ Cardinality(DOMAIN req) = 2

\* C6 as stated: when a load fails, no element of the holder has changed.
FailureLeavesHolder == status = "failed" => holder = Default(loadShape)

\* no selector of the path enters a map
NoMapOn(p) == \A j \in 1..Len(p) : DOMAIN p[j] \cap {"wkey", "tkey"} = {}

\* C6 amended: when the load of a tuple fails at some slot, an error is
\* reported and the holder may be partially populated: every word, text,
\* word sequence or text sequence read before the failing slot is in the
\* holder, at the place it belongs to, and the elements of the tuple that
\* the load had not reached are unchanged.
FailureLeavesPrefix ==
    (status = "failed" /\ loadShape.k = "tuple")
        => /\ err # "none"
           /\ \A i \in 1..(Len(Gets) - 1) :
                 (NoMapOn(Gets[i].p)
                    /\ ShapeAt(loadShape, Gets[i].p).k \in {"u32", "vecu32", "str", "vecstr"})
                 => GetAt(holder, Gets[i].p) = req[to_string(Gets[i].key)].val
           /\ \A j \in 1..Len(loadShape.elems) :
                 (\A i \in 1..Len(Gets) : Gets[i].p[1] # Idx(j))
                 => holder[j] = Default(loadShape.elems[j])

\* the load of (uint32, sequence, text) failed at the second slot with the
\* first element already replaced
FailureWitness ==
    /\ status = "failed"
    /\ loadShape = ExampleShape
    /\ Len(Gets) = 2
    /\ holder[1] # ZeroWord
    /\ holder # Default(loadShape)

IsMapPath(sh, p) == ShapeAt(sh, p).k \in {"mapu", "maps"}

\* q is the path of a sub-object inside the object at p
Under(q, p) == Len(q) > Len(p) /\ IsPrefix(p, q)

\* position of x in the sequence L
PosIn(L, x) == CHOOSE i \in 1..Len(L) : L[i] = x

\* position, in the key list L of the map at p, of the entry the path q enters
EntryPos(L, p, q) == PosIn(L, SelKey(q[Len(p) + 1]))

Emplaces(p) ==
    {i \in 1..Len(dLog) : dLog[i].ev = "emplace" /\ Len(dLog[i].p) = Len(p) + 1
                          /\ IsPrefix(p, dLog[i].p)}

\* C7  Keys first, then values: the key-list slot of a map has a key index
\* below the key index of every slot of its values, the slots of the values
\* follow the order of the key list, the deserializer gets the key-list
\* slot before any slot of the values, and a finished load has loaded
\* (and emplaced) one value per entry of the key list.
MapKeysFirst ==
    /\ \A a \in 1..Len(sLog) : IsMapPath(saveShape, sLog[a].p) =>
          LET L == req[to_string(sLog[a].key)].val
          IN  \A b \in 1..Len(sLog) : Under(sLog[b].p, sLog[a].p) =>
                 /\ sLog[b].key > sLog[a].key
                 /\ \A c \in 1..Len(sLog) :
                       (/\ Under(sLog[c].p, sLog[a].p)
                        /\ EntryPos(L, sLog[a].p, sLog[b].p)
                             < EntryPos(L, sLog[a].p, sLog[c].p))
                       => sLog[b].key < sLog[c].key
    /\ \A a \in 1..Len(Gets) : (IsMapPath(loadShape, Gets[a].p) /\ GetOk(Gets[a])) =>
          /\ \A b \in 1..Len(Gets) : Under(Gets[b].p, Gets[a].p) =>
                 /\ a < b
                 /\ Gets[a].key < Gets[b].key
          /\ status = "done" =>
                 Cardinality(Emplaces(Gets[a].p))
                     = Len(req[to_string(Gets[a].key)].val)

\* a map with two entries, each a non-empty sequence, has been saved and loaded
MapKeysFirstWitness ==
    /\ status = "done"
    /\ Matched
    /\ saveShape = MapU(Vec(U8))
    /\ DOMAIN given = MapWordKeys
    /\ \A k \in DOMAIN given : Len(given[k]) = MaxLen
    /\ Cardinality(Emplaces(<<>>)) = 2

\* C8  The deserializer never modifies the message: no step of a load,
\* successful or failing, changes the set of keys or any slot.
MessageUntouched == [][status = "loading" => req' = req]_vars

\* a load of at least three slots is finished and the message still holds them
MessageUntouchedWitness ==
    /\ status = "done"
    /\ Len(Gets) >= 3
    /\ \A i \in 1..Len(Gets) : GetOk(Gets[i])

\* the step is a get that does not find its key with a slot of the kind asked
BadGet ==
    /\ Len(dLog') = Len(dLog) + 1
    /\ dLog'[Len(dLog')].ev = "get"
    /\ ~GetOk(dLog'[Len(dLog')])

\* C9  A failed read is terminal: a get whose key is absent, or whose slot
\* is of another kind, makes the load fail with an error and leaves no call
\* pending; from then on the deserializer dispenses no key, gets no slot
\* and stores nothing.
FailureIsTerminal ==
    [][ /\ BadGet => (err' \in {"BadKey", "Type"} /\ status' = "failed" /\ dStack' = <<>>)
        /\ err # "none" => UNCHANGED << dKeyIdx, dKeys, dLog, dMem, dStack, status, err >>
      ]_vars

\* the load of (uint32, sequence, text) has failed at its second slot, the
\* third one never asked for
FailureIsTerminalWitness ==
    /\ status = "failed"
    /\ err = "Type"
    /\ loadShape = ExampleShape
    /\ dKeyIdx = 2
    /\ Len(dStack) = 0

\* C10  The member order of custom hooks is not checked: an aggregate saved
\* by a hook writing a, b, c and loaded by a hook reading b, a, c is loaded
\* without error, with as many keys as were saved, and ends with a = the
\* saved b, b = the saved a, c = the saved c.
SwappedHookUnchecked ==
    (Matched /\ saveShape = AbcSwapped /\ status \in {"done", "failed"})
        => /\ status = "done"
           /\ err = "none"
           /\ sKeyIdx = 3
           /\ dKeyIdx = sKeyIdx
           /\ holder.a = given.b
           /\ holder.b = given.a
           /\ holder.c = given.c

\* an aggregate with a # b has come out with a and b exchanged
SwappedHookWitness ==
    /\ status = "done"
    /\ Matched
    /\ saveShape = AbcSwapped
    /\ given.a # given.b
    /\ holder # given
    /\ holder.a = given.b

\* C11 as stated: for a type that provides serialize and also save and load,
\* the call is accepted and carried out with the serialize routine for
\* saving and for loading; save and load are never entered.
IntrusivePreferred ==
    (Matched /\ saveShape = PointBoth /\ status # "compiling")
        => /\ status # "rejected"
           /\ \A i \in 1..Len(sStack) : sStack[i].op # "save"
           /\ \A i \in 1..Len(dStack) : dStack[i].op # "load"

\* sh holds a type that is not natively supported and has no routine
RECURSIVE HasUnsupported(_)
HasUnsupported(sh) ==
    CASE sh.k = "double" -> TRUE
      [] sh.k \in {"vec", "arr", "mapu", "maps", "holder", "agg"} -> HasUnsupported(sh.elem)
      [] sh.k = "tuple" -> \E i \in 1..Len(sh.elems) : HasUnsupported(sh.elems[i])
      [] OTHER -> FALSE

\* C12  Unsupported types: a call whose value, or whose holder, holds a
\* type that is not natively supported and has no serialize, save or load
\* routine is rejected, on the save side as on the load side, and no key has
\* been dispensed and no slot written or read when it is.
UnsupportedRejected ==
    (HasUnsupported(saveShape) \/ HasUnsupported(loadShape))
        => /\ status \in {"compiling", "rejected"}
           /\ sKeyIdx = 0 /\ dKeyIdx = 0
           /\ sKeys = <<>> /\ dKeys = <<>>
           /\ sLog = <<>> /\ dLog = <<>>
           /\ req = EmptyMsg

\* a call with a supported first argument and an unsupported second one has
\* been rejected
UnsupportedRejectedWitness ==
    /\ status = "rejected"
    /\ saveShape = Tuple(<<U32, Double>>)
    /\ Matched

\* the only slot of the message is a word slot at key 0
OneWordSlot == DOMAIN req = {<<48>>} /\ req[<<48>>].kind = "word"

\* C13  Narrow unsigned integers: saving a std::uint8_t or std::uint16_t x
\* writes exactly one word slot, holding x with all upper bits zero; loading
\* a std::uint8_t (std::uint16_t) from a word slot holding w yields
\* w mod 2^8 (w mod 2^16).  (2^16 is a multiple of 2^8, so w mod 2^8 is the
\* low half of w mod 2^8.)
NarrowWidenTruncate ==
    /\ (saveShape \in {U8, U16} /\ status \in {"loading", "done", "failed"})
          => /\ OneWordSlot
             /\ req[<<48>>].val = [hi |-> 0, lo |-> given]
             /\ sKeys = <<0>>
    /\ (loadShape = U8 /\ status = "done" /\ OneWordSlot)
          => holder = req[<<48>>].val.lo % 256
    /\ (loadShape = U16 /\ status = "done" /\ OneWordSlot)
          => holder = req[<<48>>].val.lo % 65536

\* the word 0x1234ABCD has been loaded as a std::uint8_t, giving 0xCD
NarrowWidenTruncateWitness ==
    /\ status = "done"
    /\ saveShape = U32 /\ loadShape = U8
    /\ given = Word(4660, 43981)
    /\ holder = 205

\* the IEEE-754 single precision pattern of sign s, exponent e, fraction m:
\* bit 31, bits 30..23, bits 22..0
Pattern(f) ==
    [hi |-> f.s * 32768 + f.e * 128 + f.m \div 65536, lo |-> f.m % 65536]

\* C14  A float is carried as its 32-bit pattern: saving it writes exactly
\* one word slot holding the pattern of the float, and loading a float from
\* a word slot yields the float with the pattern the slot holds, for every
\* pattern (0.0, -0.0, the smallest and largest normal, every NaN).
FloatBitPattern ==
    /\ (saveShape = Float /\ status \in {"loading", "done", "failed"})
          => /\ OneWordSlot
             /\ req[<<48>>].val = Pattern(given)
             /\ sKeys = <<0>>
    /\ (loadShape = Float /\ status = "done" /\ OneWordSlot)
          => Pattern(holder) = req[<<48>>].val
    /\ (Matched /\ saveShape = Float /\ status \in {"done", "failed"})
          => status = "done" /\ holder = given

\* the signalling NaN 0x7F800001 has been saved as a float and loaded
FloatBitPatternWitness ==
    /\ status = "done"
    /\ Matched /\ saveShape = Float
    /\ given = [s |-> 0, e |-> 255, m |-> 1]
    /\ req[<<48>>].val = [hi |-> 32640, lo |-> 1]
    /\ holder = given

\* C15  Key-order determinism: two serializations of the same value, each
\* by a fresh serializer into an empty message, produce messages with the
\* same set of keys and the same slot kind and slot value at every key.
TwoPassesAgree ==
    (status = "loading" /\ earlier.n = 1)
        => /\ DOMAIN req = DOMAIN earlier.msg
           /\ \A key \in DOMAIN req :
                  /\ req[key].kind = earlier.msg[key].kind
                  /\ req[key].val = earlier.msg[key].val

\* a vector of maps has been serialized twice, into more than two slots
TwoPassesAgreeWitness ==
    /\ status = "loading"
    /\ earlier.n = 1
    /\ saveShape = Vec(MapU(IArr(1, 2)))
    /\ Cardinality(DOMAIN earlier.msg) > 2
    /\ Cardinality(DOMAIN req) > 2

\* C16  Write once, read once: no two slot writes of one serializer go to
\* the same key (so the message holds one slot per write), and no two gets
\* of one deserializer ask for the same key.
WriteOnceReadOnce ==
    /\ \A i, j \in 1..Len(sLog) : i # j => sLog[i].key # sLog[j].key
    /\ Cardinality(DOMAIN req) = Len(sLog)
    /\ \A i, j \in 1..Len(Gets) : i # j => Gets[i].key # Gets[j].key

\* a map with two entries has been written (two values, then the key list)
\* and read (the key list, then two values)
WriteOnceReadOnceWitness ==
    /\ status = "done"
    /\ saveShape = MapU(U32) /\ Matched
    /\ Len(sLog) = 3
    /\ Len(Gets) = 3

\* positions of the elements of the outermost tuple that log has an entry for
Elems(log) == {log[a].p[1].idx : a \in 1..Len(log)}

\* in log, the keys of an element of the outermost tuple are smaller than
\* the keys of every later element
InOrder(log) ==
    \A a, b \in 1..Len(log) :
        log[a].p[1].idx < log[b].p[1].idx => log[a].key < log[b].key

\* C17  A tuple is encoded in positional order from element 0: every key
\* used by an element is smaller than every key used by a later element,
\* on the save and on the load side; a finished save, and a successful
\* load, of a tuple of arity N has gone through exactly its N elements; a
\* tuple of arity 0 dispenses no key and touches no slot.
TupleOrder ==
    /\ saveShape.k = "tuple"
          => /\ InOrder(sLog)
             /\ status \in {"loading", "done", "failed"}
                    => Elems(sLog) = 1..Len(saveShape.elems)
    /\ loadShape.k = "tuple"
          => /\ InOrder(Gets)
             /\ Elems(Gets) \subseteq 1..Len(loadShape.elems)
             /\ status = "done" => Elems(Gets) = 1..Len(loadShape.elems)
    /\ saveShape = Tuple(<<>>) => sKeys = <<>> /\ sLog = <<>> /\ req = EmptyMsg
    /\ loadShape = Tuple(<<>>) => dKeys = <<>> /\ dLog = <<>>

\* the tuple (vector of two, word) has been saved and loaded: the vector
\* used keys 0, 1, 2 and the word key 3
TupleOrderWitness ==
    /\ status = "done"
    /\ Matched /\ saveShape = Tuple(<<Vec(U16), U32>>)
    /\ Len(given[1]) = 2
    /\ Len(sLog) = 4 /\ sLog[4].p = <<Idx(2)>> /\ sLog[4].key = 3
    /\ Len(Gets) = 4 /\ Gets[4].p = <<Idx(2)>>
    /\ holder = given

\* keys and slot kinds of the entries of log, in order
KeyKinds(log) == [a \in 1..Len(log) |-> << log[a].key, log[a].kind >>]

\* C18  A result holder is encoded as the value it holds: what the
\* serializer makes of a holder of T is loaded as a T, and what it makes of
\* a T is loaded as a holder of T, with the same keys dispensed and the same
\* slots written and read on both sides; the void holder dispenses no key
\* and writes or reads no slot.
HolderTransparent ==
    /\ (saveShape.k = "holder" /\ saveShape.elem = loadShape
           /\ status \in {"done", "failed"})
          => /\ status = "done"
             /\ holder = given[1]
             /\ dKeys = sKeys
             /\ KeyKinds(Gets) = KeyKinds(sLog)
    /\ (loadShape.k = "holder" /\ loadShape.elem = saveShape
           /\ status \in {"done", "failed"})
          => /\ status = "done"
             /\ holder[1] = given
             /\ dKeys = sKeys
             /\ KeyKinds(Gets) = KeyKinds(sLog)
    /\ saveShape = VoidHolder => sKeys = <<>> /\ sLog = <<>> /\ req = EmptyMsg
    /\ loadShape = VoidHolder => dKeys = <<>> /\ dLog = <<>>

\* a holder of a vector of one element has been saved and loaded as a vector
HolderTransparentWitness ==
    /\ status = "done"
    /\ saveShape = Holder(Vec(U16)) /\ loadShape = Vec(U16)
    /\ Len(given[1]) = 1
    /\ Len(sKeys) = 2
    /\ holder = given[1]

\* C19  A fixed-size array of N integral elements is one binary-blob slot:
\* saving it dispenses exactly one key whatever N is and writes one blob of
\* N times the element size bytes; loading it dispenses exactly one key and
\* reads one blob slot, and from the blob of an array of its own type it
\* gets the N elements back.
BlobSlot ==
    /\ (saveShape.k = "iarr" /\ status \in {"loading", "done", "failed"})
          => /\ sKeys = <<0>>
             /\ DOMAIN req = {<<48>>}
             /\ req[<<48>>].kind = "binarydata"
             /\ Len(req[<<48>>].val) = saveShape.n * saveShape.sz
    /\ (loadShape.k = "iarr" /\ status \in {"done", "failed"})
          => /\ dKeys = <<0>>
             /\ Len(Gets) = 1
             /\ Gets[1].kind = "binarydata"
    /\ (Matched /\ saveShape.k = "iarr" /\ status \in {"done", "failed"})
          => /\ status = "done"
             /\ Len(holder) = loadShape.n
             /\ holder = given

\* an array of three one-byte elements has gone through a blob of three
\* bytes
BlobSlotWitness ==
    /\ status = "done"
    /\ Matched /\ saveShape = IArr(3, 1)
    /\ Len(req[<<48>>].val) = 3
    /\ given[3] = 254
    /\ holder = given

WordScalars == {U32, Bool, U8, U16, Float}

\* the holder is what the word w gives when it is read as a loadShape
DerivedFrom(w) ==
    CASE loadShape = U32   -> holder = w
      [] loadShape = Bool  -> holder = (w # [hi |-> 0, lo |-> 0])
      [] loadShape = U8    -> holder = w.lo % 256
      [] loadShape = U16   -> holder = w.lo
      [] loadShape = Float -> Pattern(holder) = w

\* C21  Shape confusion between word-encoded scalars is not detected: a
\* slot saved as one of uint32, bool, uint8, uint16, float and loaded with a
\* holder of another of them always loads without error, with exactly one
\* key consumed, and gives the value derived from the stored word.
ScalarConfusion ==
    (/\ saveShape \in WordScalars /\ loadShape \in WordScalars
     /\ saveShape # loadShape
     /\ status \in {"done", "failed"})
        => /\ status = "done"
           /\ err = "none"
           /\ dKeys = <<0>>
           /\ OneWordSlot
           /\ DerivedFrom(req[<<48>>].val)

\* the uint32 0x00000100 has been loaded as a bool (true) without error
ScalarConfusionWitness ==
    /\ status = "done"
    /\ saveShape = U32 /\ loadShape = Bool
    /\ given = [hi |-> 0, lo |-> 256]
    /\ holder = TRUE

\* C30  A bool is saved as the word 0 (false) or 1 (true), and a bool
\* loaded from a word slot holding w is true exactly when w is not zero (an
\* even word such as 2 gives true).
BoolWord ==
    /\ (saveShape = Bool /\ status \in {"loading", "done", "failed"})
          => /\ OneWordSlot
             /\ req[<<48>>].val = [hi |-> 0, lo |-> IF given THEN 1 ELSE 0]
    /\ (loadShape = Bool /\ status = "done" /\ OneWordSlot)
          => (holder <=> (req[<<48>>].val.hi # 0 \/ req[<<48>>].val.lo # 0))

\* the word 2 has been loaded as a bool and gave true
BoolWordWitness ==
    /\ status = "done"
    /\ saveShape = U32 /\ loadShape = Bool
    /\ given = [hi |-> 0, lo |-> 2]
    /\ holder = TRUE

\* the sequences with an overload of their own
FlatSequences == {VecU32, VecStr}

\* the slot kind of a sequence of words or of texts
FlatKind(sh) == IF sh = VecU32 THEN "word_array" ELSE "string_array"

\* C22  A sequence of uint32 words is saved as one word-sequence slot and a
\* sequence of texts as one text-sequence slot: one key whatever the length
\* (0 included), no length slot and no slot per element; loading reads that
\* one slot and dispenses one key.
FlatSequenceOneSlot ==
    /\ (saveShape \in FlatSequences /\ status \in {"loading", "done", "failed"})
          => /\ sKeys = <<0>>
             /\ sKeyIdx = 1
             /\ DOMAIN req = {<<48>>}
             /\ req[<<48>>].kind = FlatKind(saveShape)
             /\ req[<<48>>].val = given
    /\ (loadShape \in FlatSequences /\ status \in {"done", "failed"})
          => /\ dKeys = <<0>>
             /\ dKeyIdx = 1
             /\ Len(Gets) = 1
             /\ Gets[1].kind = FlatKind(loadShape)
    /\ (loadShape \in FlatSequences /\ Matched /\ status \in {"done", "failed"})
          => status = "done" /\ holder = given

\* an empty sequence of words has been saved and loaded with one key
FlatSequenceWitness ==
    /\ status = "done" /\ Matched /\ dKeys = <<0>>
    /\ saveShape = VecU32 /\ given = <<>> /\ holder = <<>>

\* the sub-objects of the value v of type sh, as pairs << type, value >>
SubValues(sh, v) ==
    CASE sh.k \in {"vec", "arr"} -> [i \in 1..Len(v) |-> << sh.elem, v[i] >>]
      [] sh.k = "tuple"  -> [i \in 1..Len(sh.elems) |-> << sh.elems[i], v[i] >>]
      [] sh.k = "holder" -> << << sh.elem, v[1] >> >>
      [] sh.k = "mapu"   -> LET ks == SortedWords(DOMAIN v)
                            IN  [i \in 1..Len(ks) |-> << sh.elem, v[ks[i]] >>]
      [] sh.k = "maps"   -> LET ks == SortedTexts(DOMAIN v)
                            IN  [i \in 1..Len(ks) |-> << sh.elem, v[ks[i]] >>]
      [] sh.k = "agg"    -> [i \in 1..Len(sh.sorder) |-> << sh.elem, v[sh.sorder[i]] >>]
      [] OTHER -> <<>>

\* the number of slots of the encoding of the value v of type sh: one for a
\* scalar, a text, a sequence of words or of texts and an integral array,
\* one more than its elements for a generic sequence and for a map, and the
\* sum of its parts for the rest
RECURSIVE KeyCount(_, _)
RECURSIVE KeySum(_)
KeySum(parts) ==
    IF parts = <<>> THEN 0
    ELSE KeyCount(Head(parts)[1], Head(parts)[2]) + KeySum(Tail(parts))

KeyCount(sh, v) ==
    (IF sh.k \in {"arr", "tuple", "holder", "void", "agg"} THEN 0 ELSE 1)
        + KeySum(SubValues(sh, v))

\* C23  A sequence handled by the generic sequence routine is
\* length-prefixed: the save first writes one word slot holding the number
\* n of elements and then saves elements 0..n-1 in index order at the
\* following keys; the load first reads the length word and then loads
\* exactly that many elements in index order; the keys consumed are 1 plus
\* those of the elements, and 1 for an empty sequence.
VectorLengthPrefixed ==
    /\ (saveShape.k = "vec" /\ status \in {"saving", "loading", "done", "failed"}
            /\ (sLog # <<>> \/ status # "saving"))
          => /\ sLog # <<>>
             /\ sLog[1] = [key |-> 0, kind |-> "word", p |-> <<>>]
             /\ req[<<48>>].kind = "word"
             /\ req[<<48>>].val = ToWord(Len(given))
             /\ InOrder(Tail(sLog))
             /\ Elems(Tail(sLog)) \subseteq 1..Len(given)
    /\ (saveShape.k = "vec" /\ status \in {"loading", "done", "failed"})
          => /\ Elems(Tail(sLog)) = 1..Len(given)
             /\ sKeys = [a \in 1..(1 + KeySum(SubValues(saveShape, given))) |-> a - 1]
             /\ given = <<>> => sKeys = <<0>>
    /\ (loadShape.k = "vec" /\ status \in {"loading", "done", "failed"} /\ Gets # <<>>)
          => /\ Gets[1].key = 0 /\ Gets[1].kind = "word" /\ Gets[1].p = <<>>
             /\ InOrder(Tail(Gets))
             /\ GetError(req, <<48>>, "word") = "none"
                    => Elems(Tail(Gets)) \subseteq 1..WordNat(req[<<48>>].val)
    /\ (loadShape.k = "vec" /\ status = "done")
          => /\ Len(holder) = WordNat(req[<<48>>].val)
             /\ Elems(Tail(Gets)) = 1..Len(holder)
             /\ dKeys = [a \in 1..(1 + KeySum(SubValues(loadShape, holder))) |-> a - 1]
             /\ holder = <<>> => dKeys = <<0>>

\* a sequence of two uint16 has been saved as the word 2 and two more slots,
\* and loaded with three keys
VectorLengthWitness ==
    /\ status = "done"
    /\ Matched /\ saveShape = Vec(U16)
    /\ Len(given) = 2
    /\ req[<<48>>].val = Word(0, 2)
    /\ sKeys = <<0, 1, 2>> /\ dKeys = <<0, 1, 2>>
    /\ holder = given

\* log has an entry of the object itself, not of one of its sub-objects
OwnSlot(log) == \E a \in 1..Len(log) : log[a].p = <<>>

\* C24  A fixed-size array of N elements that is not an integral-element
\* array is encoded element by element in index order with no length slot:
\* it consumes exactly the sum of the keys of its N elements, and an array
\* of size 0 dispenses no key.
ArrayElementwise ==
    /\ saveShape.k = "arr"
          => /\ ~OwnSlot(sLog)
             /\ InOrder(sLog)
             /\ Elems(sLog) \subseteq 1..saveShape.n
    /\ (saveShape.k = "arr" /\ status \in {"loading", "done", "failed"})
          => /\ Elems(sLog) = 1..saveShape.n
             /\ sKeys = [a \in 1..KeySum(SubValues(saveShape, given)) |-> a - 1]
             /\ Len(sLog) = Len(sKeys)
             /\ DOMAIN req = {to_string(a - 1) : a \in 1..Len(sKeys)}
             /\ saveShape.n = 0 => sKeys = <<>> /\ req = EmptyMsg
    /\ loadShape.k = "arr"
          => /\ ~OwnSlot(Gets)
             /\ InOrder(Gets)
             /\ Elems(Gets) \subseteq 1..loadShape.n
    /\ (loadShape.k = "arr" /\ status = "done")
          => /\ Elems(Gets) = 1..loadShape.n
             /\ dKeys = [a \in 1..KeySum(SubValues(loadShape, holder)) |-> a - 1]
             /\ loadShape.n = 0 => dKeys = <<>>
             /\ Matched => holder = given

\* an array of two floats has been saved in the slots "0" and "1" and loaded
ArrayElementwiseWitness ==
    /\ status = "done"
    /\ Matched /\ saveShape = Arr(Float, 2)
    /\ given[1] # given[2]
    /\ sKeys = <<0, 1>> /\ dKeys = <<0, 1>>
    /\ sLog[2].p = << Idx(2) >>
    /\ holder = given

\* C25  Serialization does not change the value being serialized: during
\* and after the save of any supported value, also through the serialize
\* routines of sequences, arrays and aggregates that receive a non-const
\* reference, the value, with the length and every element of every nested
\* sequence, is what it was before the save.
SaveKeepsValue == value = given

\* a map holding a sequence of MaxLen elements has been saved through the
\* sequence routine and is what it was
SaveKeepsValueWitness ==
    /\ status = "loading"
    /\ saveShape = MapU(Vec(U8))
    /\ \E k \in DOMAIN given : Len(given[k]) = MaxLen
    /\ sKeyIdx > MaxLen
    /\ value = given

\* the decimal writing of a number below 100
Decimal(n) ==
    IF n < 10 THEN << 48 + n >> ELSE << 48 + (n \div 10), 48 + (n % 10) >>

\* C26  After a fresh serializer has finished saving a complete value into
\* an initially empty message and has dispensed n keys, the message holds
\* exactly n slots, under the decimal strings of 0, 1, ..., n-1: no
\* dispensed key is left without a slot and no slot is under another key.
SlotsAreTheKeys ==
    status \in {"loading", "done", "failed"}
        => /\ sKeyIdx = Len(sKeys)
           /\ sKeyIdx < 100
           /\ DOMAIN req = {Decimal(sKeys[a]) : a \in 1..Len(sKeys)}
           /\ DOMAIN req = {Decimal(n) : n \in 0..(sKeyIdx - 1)}
           /\ Cardinality(DOMAIN req) = sKeyIdx

\* an array of eleven booleans has been saved: eleven slots, the last one
\* under the key "10"
SlotsAreTheKeysWitness ==
    /\ status = "loading"
    /\ saveShape = LongArray
    /\ sKeyIdx = 11
    /\ << 49, 48 >> \in DOMAIN req
    /\ Cardinality(DOMAIN req) = 11

\* the entries of the map at p that the writes before the a-th have saved
\* slots of
EntriesWritten(a, p) ==
    {sLog[b].p[Len(p) + 1] : b \in {c \in 1..(a - 1) : Under(sLog[c].p, p)}}

\* C27  While a map is being saved, its key-list slot, whose key k was
\* dispensed first, is written only after all the value slots of the map:
\* as long as the map's save has not returned the slot k is absent, every
\* slot of the map's values is written before it although under a greater
\* key, and when it is written the values of all its entries are in the
\* message.
KeyListWrittenLast ==
    /\ \A i \in 1..Len(sStack) :
          sStack[i].op = "map" => Decimal(sStack[i].kk) \notin DOMAIN req
    /\ \A a \in 1..Len(sLog) : IsMapPath(saveShape, sLog[a].p) =>
          /\ \A b \in 1..Len(sLog) : Under(sLog[b].p, sLog[a].p) =>
                 b < a /\ sLog[b].key > sLog[a].key
          /\ Cardinality(EntriesWritten(a, sLog[a].p))
                 = Len(req[Decimal(sLog[a].key)].val)

\* a map of two entries is being saved: the slots "1" and "2" of its values
\* are in the message and the slot "0" of its key list is not
KeyListWrittenLastWitness ==
    /\ status = "saving"
    /\ saveShape = MapU(U32)
    /\ sKeyIdx = 3
    /\ DOMAIN req = {<<49>>, <<50>>}

\* the holder is a map whose values take one word slot each
FlatMapHolder == loadShape \in {MapU(U32), MapS(Bool)}

\* position of the first occurrence of k in the key list L
FirstOf(L, k) == CHOOSE i \in 1..Len(L) : L[i] = k /\ \A j \in 1..(i - 1) : L[j] # k

\* the value of the holder's type that the word slot under key index n holds
WordAt(n) ==
    IF loadShape.elem = Bool THEN req[Decimal(n)].val # [hi |-> 0, lo |-> 0]
    ELSE req[Decimal(n)].val

\* C28  Loading a map only inserts: an entry that was in the holder before
\* the load is kept with its old value; for a key that occurs more than
\* once in the key list of the message the first value stored for it wins;
\* yet one value is loaded, and its keys consumed, for every entry of the
\* key list, so the keys consumed depend on the key list alone and not on
\* the number of entries the holder ends up with.
MapLoadInserts ==
    FlatMapHolder =>
        /\ \A k \in DOMAIN previous : k \in DOMAIN holder /\ holder[k] = previous[k]
        /\ status = "done" =>
              LET L == req[<<48>>].val
              IN  /\ DOMAIN holder = DOMAIN previous \cup {L[i] : i \in 1..Len(L)}
                  /\ \A k \in DOMAIN holder \ DOMAIN previous :
                         holder[k] = WordAt(FirstOf(L, k))
                  /\ dKeys = [a \in 1..(1 + Len(L)) |-> a - 1]
                  /\ Cardinality(Emplaces(<<>>)) = Len(L)
                  /\ Len(Gets) = 1 + Len(L)

\* a key list naming one key twice has been loaded into a holder that had
\* an entry under another key: three keys consumed, two entries in the
\* holder, the old one unchanged and the new one with the first value
MapLoadInsertsWitness ==
    /\ status = "done"
    /\ loadShape = MapU(U32)
    /\ previous = [k \in {Word(0, 7)} |-> Word(0, 2)]
    /\ req[<<48>>].val = << Word(1, 0), Word(1, 0) >>
    /\ dKeyIdx = 3
    /\ holder = [k \in {Word(0, 7), Word(1, 0)} |->
                    IF k = Word(0, 7) THEN Word(0, 2) ELSE Word(0, 1)]

\* the holder is a sequence
SequenceHolder == loadShape.k \in {"vec", "vecu32", "vecstr"}

\* the length of the sequence stored in the message
StoredLength ==
    IF loadShape.k = "vec" THEN WordNat(req[<<48>>].val) ELSE Len(req[<<48>>].val)

\* C29 as stated: whatever the holder's length and elements before the
\* load, after a successful load of a sequence its length is the length
\* stored in the message and every element comes from the message: the
\* holder is the sequence that was saved.
SequenceReplaced ==
    (SequenceHolder /\ Matched /\ status = "done")
        => /\ Len(holder) = StoredLength
           /\ holder = given

\* a type with a map somewhere in it
RECURSIVE HasMap(_)
HasMap(sh) ==
    \/ sh.k \in {"mapu", "maps"}
    \/ sh.k \in {"vec", "arr", "holder", "agg"} /\ HasMap(sh.elem)
    \/ sh.k = "tuple" /\ \E i \in 1..Len(sh.elems) : HasMap(sh.elems[i])

\* what an object of type sh that was old is after it has been loaded from
\* the encoding of new: a sequence takes the stored length and loads its
\* elements in place, a map keeps its entries and gains the new keys, an
\* array, tuple, holder or aggregate loads its parts in place, and
\* everything else is assigned
RECURSIVE LoadedInto(_, _, _)
LoadedInto(sh, old, new) ==
    CASE sh.k = "vec" ->
            [i \in 1..Len(new) |->
                LoadedInto(sh.elem, IF i <= Len(old) THEN old[i] ELSE Default(sh.elem),
                           new[i])]
      [] sh.k \in {"mapu", "maps"} ->
            [k \in DOMAIN old \cup DOMAIN new |->
                IF k \in DOMAIN old THEN old[k]
                ELSE LoadedInto(sh.elem, Default(sh.elem), new[k])]
      [] sh.k = "arr" -> [i \in 1..sh.n |-> LoadedInto(sh.elem, old[i], new[i])]
      [] sh.k = "tuple" ->
            [i \in 1..Len(sh.elems) |-> LoadedInto(sh.elems[i], old[i], new[i])]
      [] sh.k = "holder" -> << LoadedInto(sh.elem, old[1], new[1]) >>
      [] sh.k = "agg" -> [n \in sh.names |-> LoadedInto(sh.elem, old[n], new[n])]
      [] OTHER -> new

\* C29  After a successful load of a sequence, whatever the holder's
\* length and elements before, the holder's length is the length stored in
\* the message and exactly that many elements have been loaded, in index
\* order; a sequence whose element type holds no map is the sequence that
\* was saved; an element that was in the holder before is loaded in place,
\* so that a map in it keeps its previous entries next to those of the
\* message.
SequenceReloaded ==
    (SequenceHolder /\ Matched /\ status = "done")
        => /\ Len(holder) = StoredLength
           /\ Len(holder) = Len(given)
           /\ loadShape.k = "vec" => Elems(Tail(Gets)) = 1..StoredLength
           /\ loadShape.k # "vec" => Len(Gets) = 1
           /\ ~HasMap(loadShape) => holder = given
           /\ holder = LoadedInto(loadShape, previous, given)

\* a sequence of one map has been loaded into a holder of one map with
\* another value under the same key: the holder has kept its value
SequenceReloadedWitness ==
    /\ status = "done"
    /\ Matched /\ loadShape = Vec(MapU(U32))
    /\ Len(previous) = 1 /\ Len(given) = 1
    /\ DOMAIN previous[1] = DOMAIN given[1] /\ DOMAIN given[1] # {}
    /\ previous[1] # given[1]
    /\ holder = previous

====
